---- MODULE Spec2Model ----
(***************************************************************************)
(* Model of the coalescing save queue (SaveQueue) and of the atomic file   *)
(* write (atomicWriteFile) of SamoAI-Repository-Storage.                   *)
(*                                                                         *)
(* Spec     : the SaveQueue of src/unnamed/part_000 driven by arbitrary    *)
(*            requestSave calls, timer expiries and saveFn outcomes.       *)
(* FairSpec : Spec with the fairness that the Node.js event loop gives     *)
(*            (time passes, expired timers run, saveFn settles).           *)
(* FileSpec : atomicWriteFile of src/unnamed/part_001 on one target path,  *)
(*            one call at a time, with I/O failures and process crashes at *)
(*            every step.                                                  *)
(* JsonSpec : ensureDirectoryExists, writeJsonFile and readJsonFile.       *)
(* StoreSpec: the mutators of the agent store and of the location store.   *)
(* ThrowSpec: Spec with an onError callback that may throw.                *)
(* WriteSpec: the SaveQueue with writeJsonFile of the key's file as saveFn.*)
(* LockSpec : saveState and executeSave of the lock-polling stores, job by *)
(*            job of the event loop.                                       *)
(* ChainSpec: saveState and executeSave of the promise-chain stores.       *)
(* FairSaveSpec: a store of either kind under the event loop's fairness.   *)
(* ItemSpec : the inventories of ItemStorage under its mutating methods.   *)
(* GimmickSpec: getOrCreateGimmickState calls on one location of           *)
(*            GimmickStorage, await by await.                              *)
(***************************************************************************)
EXTENDS Integers, Sequences, FiniteSets, TLC

\* ------------------------------------------------------------------ bounds
NumKeys == 2
MaxRequests == 3
DelayMs == 1
MaxLen == 2
NumSaves == 3

Keys == 1..NumKeys
SaveIds == 1..NumSaves
Bytes == {"a", "b"}

\* The payloads and file contents: every string of at most MaxLen bytes.
Strings == UNION {[1..n -> Bytes] : n \in 0..MaxLen}

VARIABLES
  debounceTimers,    \* Map<K, Timeout>: key -> time left before the timer expires
  activeSaves,       \* Set<K>
  dirtyWhileSaving,  \* Set<K>
  pendingResolvers,  \* Map<K, Array<resolve>>: key -> sequence of promise ids
  hasOnError,        \* whether the constructor was given an onError callback
  flushes,           \* the suspended flush() coroutines: [key, pc, left]
  promises,          \* the promises requestSave has returned, in call order
  log,               \* per key, the history: "request" (requestSave), "fire" (the
                     \* timer callback enters flush), "start" (saveFn called),
                     \* "ok" / "fail" (saveFn settled), "done" (flush left)
  onErrorCalls,      \* sequence of keys onError was invoked with
  consoleErrors,     \* sequence of keys console.error was invoked for
  sinceFirstRequest, \* per key, the time passed since the request that set the
                     \* debounce timer, counted up to DelayMs
  sinceSaveEnd,      \* per key, the time passed since saveFn last settled,
                     \* counted up to DelayMs
  \* ---- atomicWriteFile (FileSpec)
  isWindows,         \* process.platform === 'win32'
  target,            \* the file at filePath
  tmp,               \* the file at tmpPath, `${filePath}.${process.pid}.tmp`
  call,              \* the atomicWriteFile call in progress (or its outcome)
  \* ---- ensureDirectoryExists, writeJsonFile, readJsonFile (JsonSpec)
  knownDirectories,  \* Set<string>
  disk,              \* per directory path: "none", "dir", or "file" (the path
                     \* is taken by something that is no directory)
  jsonFiles,         \* per directory, the file at the one JSON path inside it
  datum,             \* the value the caller passes to writeJsonFile
  jcall,             \* the call in progress (or its outcome)
  written,           \* per path, the value of the last writeJsonFile that returned
  \* ---- the agent store and the location store (StoreSpec)
  agents,            \* database.agents: agent id -> its record
  locations,         \* database.locations: location id -> its record
  saveQueue,         \* the stores' saveQueue maps: the <<store, id>> with a timer
  unsaved,           \* the <<store, id>> whose record changed since it was written
  scall,             \* the last call of a store method and its outcome
  \* ---- the SaveQueue with writeJsonFile as its saveFn (WriteSpec)
  writes,            \* the writeJsonFile calls made by saveFn, with their state
  tmpFiles,          \* per target path, the call whose payload the temp file
                     \* `${filePath}.${process.pid}.tmp` holds (0: no temp file)
  \* ---- saveState and executeSave of the entity stores (LockSpec, ChainSpec)
  storeKind,         \* "lock": a store with the saveInProgress flag;
                     \* "chain": a store with the savePromise chain
  saveQueueMap,      \* the store's saveQueue: key -> the saveState call whose
                     \* { timeoutId, resolve } it holds
  savePromise,       \* the operations chained on savePromise and not settled
  saveInProgress,    \* the store's saveInProgress flag
  saves,             \* the saveState calls: id -> key, position of the timer
                     \* callback and of its executeSave, state of the promise
  microtasks,        \* the continuations ready to run, in order
  itemStorage,       \* the ItemStorage object and the inventory files under it
  gimmickStorage     \* the GimmickStorage object, its state file and its callers

queueVars == <<debounceTimers, activeSaves, dirtyWhileSaving, pendingResolvers,
               hasOnError, flushes, promises, log, onErrorCalls, consoleErrors,
               sinceFirstRequest, sinceSaveEnd>>
fileVars == <<isWindows, target, tmp, call>>
jsonVars == <<knownDirectories, disk, jsonFiles, datum, jcall, written>>
storeVars == <<agents, locations, saveQueue, unsaved, scall>>
writeVars == <<writes, tmpFiles>>
lockVars == <<storeKind, saveQueueMap, savePromise, saveInProgress, saves, microtasks>>
entityVars == <<itemStorage, gimmickStorage>>
vars == <<queueVars, fileVars, jsonVars, storeVars, writeVars, lockVars, entityVars>>
\* What the steps of the SaveQueue, of atomicWriteFile and of the JSON file
\* functions leave alone.
nonQueueVars == <<fileVars, jsonVars, storeVars, writeVars, lockVars, entityVars>>
nonFileVars == <<queueVars, jsonVars, storeVars, writeVars, lockVars, entityVars>>
nonJsonVars == <<queueVars, fileVars, storeVars, writeVars, lockVars, entityVars>>
nonStoreVars == <<queueVars, fileVars, jsonVars, writeVars, lockVars, entityVars>>
nonWriteVars == <<queueVars, fileVars, jsonVars, storeVars, lockVars, entityVars>>
nonLockVars == <<queueVars, fileVars, jsonVars, storeVars, writeVars, entityVars>>
nonItemVars == <<queueVars, fileVars, jsonVars, storeVars, writeVars, lockVars, gimmickStorage>>
nonGimmickVars == <<queueVars, fileVars, jsonVars, storeVars, writeVars, lockVars, itemStorage>>

\* ------------------------------------------------------- Map<K, V> helpers
MapHas(m, k) == k \in DOMAIN m
MapSet(m, k, v) == [x \in (DOMAIN m) \cup {k} |-> IF x = k THEN v ELSE m[x]]
MapDelete(m, k) == [x \in (DOMAIN m) \ {k} |-> m[x]]
EmptyMap == [x \in {} |-> 0]

\* ------------------------------------------------------------- files
NoFile == [exists |-> FALSE, content |-> <<>>]
File(c) == [exists |-> TRUE, content |-> c]
NoCall == [pc |-> "idle"]

Dirs == {"d1", "d2"}
NoValue == [t |-> "none"]
Null == [t |-> "null"]
IdleCall == [pc |-> "idle", op |-> "none", dir |-> "none", cached |-> FALSE,
             mkdir |-> "none", error |-> "none", result |-> NoValue]

\* The queue specifications leave the file system alone, and conversely.
FileIdle ==
  /\ isWindows = FALSE
  /\ target = NoFile
  /\ tmp = NoFile
  /\ call = NoCall

JsonIdle ==
  /\ knownDirectories = {}
  /\ disk = [d \in Dirs |-> "none"]
  /\ jsonFiles = [d \in Dirs |-> NoFile]
  /\ datum = Null
  /\ jcall = IdleCall
  /\ written = [d \in Dirs |-> NoValue]

NoStoreCall == [op |-> "none", store |-> "none", id |-> 0, outcome |-> "none",
                error |-> "none", seq |-> 0]

StoreIdle ==
  /\ agents = EmptyMap
  /\ locations = EmptyMap
  /\ saveQueue = {}
  /\ unsaved = {}
  /\ scall = NoStoreCall

WriteIdle ==
  /\ writes = {}
  /\ tmpFiles = [p \in Keys |-> 0]

NoSave == [key |-> 0, pc |-> "none", polled |-> FALSE, promise |-> "none"]

LockIdle ==
  /\ storeKind = "none"
  /\ saveQueueMap = [k \in {} |-> 0]
  /\ savePromise = <<>>
  /\ saveInProgress = FALSE
  /\ saves = [i \in SaveIds |-> NoSave]
  /\ microtasks = <<>>

NoTransfer == [target |-> "none", dataId |-> 0, count |-> 0]
NoItemCall == [op |-> "none", outcome |-> "none"]
NoItemStorage == [owners |-> EmptyMap, nextItemId |-> 1, files |-> EmptyMap,
                  transfer |-> NoTransfer, last |-> NoItemCall]
NoGimmickStorage == [loaded |-> FALSE, gimmickStates |-> {}, fileExists |-> FALSE,
                     file |-> {}, load |-> "none", calls |-> EmptyMap]

EntityIdle ==
  /\ itemStorage = NoItemStorage
  /\ gimmickStorage = NoGimmickStorage

\* =================================================================== SaveQueue
Init ==
  /\ debounceTimers = EmptyMap
  /\ activeSaves = {}
  /\ dirtyWhileSaving = {}
  /\ pendingResolvers = EmptyMap
  /\ hasOnError \in BOOLEAN
  /\ flushes = {}
  /\ promises = <<>>
  /\ log = [k \in Keys |-> <<>>]
  /\ onErrorCalls = <<>>
  /\ consoleErrors = <<>>
  /\ sinceFirstRequest = [k \in Keys |-> DelayMs]
  /\ sinceSaveEnd = [k \in Keys |-> DelayMs]
  /\ FileIdle
  /\ JsonIdle
  /\ StoreIdle
  /\ WriteIdle
  /\ LockIdle
  /\ EntityIdle

\* requestSave without the activeSaves test: a request made during a save
\* starts a debounce timer of its own.
RequestSaveIgnoresActive(key) ==
  /\ Len(promises) < MaxRequests
  /\ LET id == Len(promises) + 1
         resolvers == IF MapHas(pendingResolvers, key)
                      THEN pendingResolvers[key] ELSE <<>>
     IN  /\ promises' = Append(promises, [key |-> key, state |-> "pending",
                                          at |-> Len(log[key])])
         /\ pendingResolvers' = MapSet(pendingResolvers, key, Append(resolvers, id))
         /\ log' = [log EXCEPT ![key] = Append(@, "request")]
  /\ IF MapHas(debounceTimers, key)
     THEN UNCHANGED <<dirtyWhileSaving, debounceTimers>>
     ELSE /\ debounceTimers' = MapSet(debounceTimers, key, DelayMs)
          /\ UNCHANGED dirtyWhileSaving
  /\ UNCHANGED <<activeSaves, hasOnError, flushes, onErrorCalls, consoleErrors>>
  /\ sinceFirstRequest' = IF MapHas(debounceTimers, key) \/ key \in activeSaves
                          THEN sinceFirstRequest
                          ELSE [sinceFirstRequest EXCEPT ![key] = 0]
  /\ UNCHANGED sinceSaveEnd
  /\ UNCHANGED nonQueueVars

\* requestSave as the earlier SaveQueue had it: a request made during a save
\* marks the key dirty and its promise resolves at once.
RequestSaveResolvesAtOnce(key) ==
  /\ Len(promises) < MaxRequests
  /\ log' = [log EXCEPT ![key] = Append(@, "request")]
  /\ IF key \in activeSaves
     THEN /\ promises' = Append(promises, [key |-> key, state |-> "resolved",
                                           at |-> Len(log[key])])
          /\ dirtyWhileSaving' = dirtyWhileSaving \cup {key}
          /\ UNCHANGED <<debounceTimers, pendingResolvers>>
     ELSE /\ promises' = Append(promises, [key |-> key, state |-> "pending",
                                           at |-> Len(log[key])])
          /\ pendingResolvers' =
               MapSet(pendingResolvers, key,
                      Append(IF MapHas(pendingResolvers, key)
                             THEN pendingResolvers[key] ELSE <<>>,
                             Len(promises) + 1))
          /\ IF MapHas(debounceTimers, key)
             THEN UNCHANGED <<dirtyWhileSaving, debounceTimers>>
             ELSE /\ debounceTimers' = MapSet(debounceTimers, key, DelayMs)
                  /\ UNCHANGED dirtyWhileSaving
  /\ UNCHANGED <<activeSaves, hasOnError, flushes, onErrorCalls, consoleErrors>>
  /\ sinceFirstRequest' = IF MapHas(debounceTimers, key) \/ key \in activeSaves
                          THEN sinceFirstRequest
                          ELSE [sinceFirstRequest EXCEPT ![key] = 0]
  /\ UNCHANGED sinceSaveEnd
  /\ UNCHANGED nonQueueVars

\* requestSave as a resetting debounce: a request made while a timer is
\* pending clears it and sets a new one (clearTimeout, then setTimeout).
RequestSaveResetsTimer(key) ==
  /\ Len(promises) < MaxRequests
  /\ LET id == Len(promises) + 1
         resolvers == IF MapHas(pendingResolvers, key)
                      THEN pendingResolvers[key] ELSE <<>>
     IN  /\ promises' = Append(promises, [key |-> key, state |-> "pending",
                                          at |-> Len(log[key])])
         /\ pendingResolvers' = MapSet(pendingResolvers, key, Append(resolvers, id))
         /\ log' = [log EXCEPT ![key] = Append(@, "request")]
  /\ IF key \in activeSaves
     THEN /\ dirtyWhileSaving' = dirtyWhileSaving \cup {key}
          /\ UNCHANGED debounceTimers
     ELSE /\ debounceTimers' = MapSet(debounceTimers, key, DelayMs)
          /\ UNCHANGED dirtyWhileSaving
  /\ UNCHANGED <<activeSaves, hasOnError, flushes, onErrorCalls, consoleErrors>>
  /\ sinceFirstRequest' = IF MapHas(debounceTimers, key) \/ key \in activeSaves
                          THEN sinceFirstRequest
                          ELSE [sinceFirstRequest EXCEPT ![key] = 0]
  /\ UNCHANGED sinceSaveEnd
  /\ UNCHANGED nonQueueVars

\* requestSave(key): the executor of the returned promise runs synchronously.
RequestSave(key) ==
  /\ Len(promises) < MaxRequests
  /\ LET id == Len(promises) + 1
         resolvers == IF MapHas(pendingResolvers, key)
                      THEN pendingResolvers[key] ELSE <<>>
     IN  /\ promises' = Append(promises, [key |-> key, state |-> "pending",
                                          at |-> Len(log[key])])
         /\ pendingResolvers' = MapSet(pendingResolvers, key, Append(resolvers, id))
         /\ log' = [log EXCEPT ![key] = Append(@, "request")]
  /\ IF key \in activeSaves
     THEN /\ dirtyWhileSaving' = dirtyWhileSaving \cup {key}
          /\ UNCHANGED debounceTimers
     ELSE IF MapHas(debounceTimers, key)
     THEN UNCHANGED <<dirtyWhileSaving, debounceTimers>>
     ELSE /\ debounceTimers' = MapSet(debounceTimers, key, DelayMs)
          /\ UNCHANGED dirtyWhileSaving
  /\ UNCHANGED <<activeSaves, hasOnError, flushes, onErrorCalls, consoleErrors>>
  /\ sinceFirstRequest' = IF MapHas(debounceTimers, key) \/ key \in activeSaves
                          THEN sinceFirstRequest
                          ELSE [sinceFirstRequest EXCEPT ![key] = 0]
  /\ UNCHANGED sinceSaveEnd
  /\ UNCHANGED nonQueueVars

\* The promises whose resolve functions are in `resolvers` become resolved
\* (resolve() on a settled promise is a no-op).
ResolveAll(ps, resolvers) ==
  [i \in DOMAIN ps |->
     IF \E j \in DOMAIN resolvers : resolvers[j] = i
     THEN [ps[i] EXCEPT !.state = "resolved"]
     ELSE ps[i]]

\* The loop without `this.dirtyWhileSaving.delete(key)`.
FlushLoopKeepsDirty(old, key, entered) ==
  /\ UNCHANGED dirtyWhileSaving
  /\ log' = [log EXCEPT ![key] = @ \o entered \o <<"start">>]
  /\ flushes' = (flushes \ old) \cup
                  {[key |-> key, id |-> Len(log[key]), pc |-> "saveFn", left |-> 0]}

\* The loop with `this.dirtyWhileSaving.clear()`: every key's mark goes.
FlushLoopClearsDirty(old, key, entered) ==
  /\ dirtyWhileSaving' = {}
  /\ log' = [log EXCEPT ![key] = @ \o entered \o <<"start">>]
  /\ flushes' = (flushes \ old) \cup
                  {[key |-> key, id |-> Len(log[key]), pc |-> "saveFn", left |-> 0]}

\* The dirty mark cleared once, when flush is entered, and not again at the
\* top of each iteration.
FlushLoopClearsOnEntryOnly(old, key, entered) ==
  /\ dirtyWhileSaving' = IF entered = <<>> THEN dirtyWhileSaving
                         ELSE dirtyWhileSaving \ {key}
  /\ log' = [log EXCEPT ![key] = @ \o entered \o <<"start">>]
  /\ flushes' = (flushes \ old) \cup
                  {[key |-> key, id |-> Len(log[key]), pc |-> "saveFn", left |-> 0]}

\* flush(key), top of the while loop: clear the dirty mark and call saveFn.
\* The coroutine (new when flush has just been entered by the timer callback,
\* which the log records as "fire") is left suspended at `await this.saveFn(key)`.
FlushLoop(old, key, entered) ==
  /\ dirtyWhileSaving' = dirtyWhileSaving \ {key}
  /\ log' = [log EXCEPT ![key] = @ \o entered \o <<"start">>]
  /\ flushes' = (flushes \ old) \cup
                  {[key |-> key, id |-> Len(log[key]), pc |-> "saveFn", left |-> 0]}

\* The finally block resolving only the first waiter.
FlushFinallyResolvesFirst(f, outcome) ==
  /\ log' = [log EXCEPT ![f.key] = @ \o <<outcome, "done">>]
  /\ activeSaves' = activeSaves \ {f.key}
  /\ IF MapHas(pendingResolvers, f.key)
     THEN /\ pendingResolvers' = MapDelete(pendingResolvers, f.key)
          /\ promises' = ResolveAll(promises, SubSeq(pendingResolvers[f.key], 1, 1))
     ELSE UNCHANGED <<pendingResolvers, promises>>
  /\ flushes' = flushes \ {f}

\* The finally block leaving activeSaves without looking at the waiters.
FlushFinallyKeepsWaiters(f, outcome) ==
  /\ log' = [log EXCEPT ![f.key] = @ \o <<outcome, "done">>]
  /\ activeSaves' = activeSaves \ {f.key}
  /\ UNCHANGED <<pendingResolvers, promises>>
  /\ flushes' = flushes \ {f}

\* flush(key), the finally block: leave activeSaves and resolve every waiter.
FlushFinally(f, outcome) ==
  /\ log' = [log EXCEPT ![f.key] = @ \o <<outcome, "done">>]
  /\ activeSaves' = activeSaves \ {f.key}
  /\ IF MapHas(pendingResolvers, f.key)
     THEN /\ pendingResolvers' = MapDelete(pendingResolvers, f.key)
          /\ promises' = ResolveAll(promises, pendingResolvers[f.key])
     ELSE UNCHANGED <<pendingResolvers, promises>>
  /\ flushes' = flushes \ {f}

\* The loop test reading the wrong set: activeSaves instead of dirtyWhileSaving.
FlushAfterSaveTestsActive(f, outcome) ==
  IF f.key \in activeSaves
  THEN /\ log' = [log EXCEPT ![f.key] = Append(@, outcome)]
       /\ flushes' = (flushes \ {f}) \cup {[f EXCEPT !.pc = "sleep", !.left = DelayMs]}
       /\ UNCHANGED <<activeSaves, pendingResolvers, promises>>
  ELSE FlushFinally(f, outcome)

\* The loop without `await sleep(this.delayMs)`: the follow-up save is due
\* at once.
FlushAfterSaveNoCooldown(f, outcome) ==
  IF f.key \in dirtyWhileSaving
  THEN /\ log' = [log EXCEPT ![f.key] = Append(@, outcome)]
       /\ flushes' = (flushes \ {f}) \cup {[f EXCEPT !.pc = "sleep", !.left = 0]}
       /\ UNCHANGED <<activeSaves, pendingResolvers, promises>>
  ELSE FlushFinally(f, outcome)

\* The waiters resolved after every saveFn call, also when a follow-up save
\* is still to come.
FlushAfterSaveResolvesEarly(f, outcome) ==
  IF f.key \in dirtyWhileSaving
  THEN /\ log' = [log EXCEPT ![f.key] = Append(@, outcome)]
       /\ flushes' = (flushes \ {f}) \cup {[f EXCEPT !.pc = "sleep", !.left = DelayMs]}
       /\ IF MapHas(pendingResolvers, f.key)
          THEN /\ pendingResolvers' = MapDelete(pendingResolvers, f.key)
               /\ promises' = ResolveAll(promises, pendingResolvers[f.key])
          ELSE UNCHANGED <<pendingResolvers, promises>>
       /\ UNCHANGED activeSaves
  ELSE FlushFinally(f, outcome)

\* The loop going on for as long as the key has waiters, requested during the
\* save or before it.
FlushAfterSaveTestsWaiters(f, outcome) ==
  IF MapHas(pendingResolvers, f.key)
  THEN /\ log' = [log EXCEPT ![f.key] = Append(@, outcome)]
       /\ flushes' = (flushes \ {f}) \cup {[f EXCEPT !.pc = "sleep", !.left = DelayMs]}
       /\ UNCHANGED <<activeSaves, pendingResolvers, promises>>
  ELSE FlushFinally(f, outcome)

\* flush(key), after the try/catch around saveFn: cooldown and loop, or break.
FlushAfterSave(f, outcome) ==
  IF f.key \in dirtyWhileSaving
  THEN /\ log' = [log EXCEPT ![f.key] = Append(@, outcome)]
       /\ flushes' = (flushes \ {f}) \cup {[f EXCEPT !.pc = "sleep", !.left = DelayMs]}
       /\ UNCHANGED <<activeSaves, pendingResolvers, promises>>
  ELSE FlushFinally(f, outcome)

\* A timer callback that waits for every other key's flush (one global lock).
TimerFireSerialized(key) ==
  /\ MapHas(debounceTimers, key)
  /\ debounceTimers[key] = 0
  /\ activeSaves = {}
  /\ debounceTimers' = MapDelete(debounceTimers, key)
  /\ activeSaves' = activeSaves \cup {key}
  /\ FlushLoop({}, key, <<"fire">>)
  /\ UNCHANGED <<pendingResolvers, hasOnError, promises, onErrorCalls, consoleErrors>>
  /\ UNCHANGED <<sinceFirstRequest, sinceSaveEnd>>
  /\ UNCHANGED nonQueueVars

\* The debounce timer of `key` expires: the callback deletes the timer and
\* enters flush(key), which runs up to its first await.
TimerFire(key) ==
  /\ MapHas(debounceTimers, key)
  /\ debounceTimers[key] = 0
  /\ debounceTimers' = MapDelete(debounceTimers, key)
  /\ activeSaves' = activeSaves \cup {key}
  /\ FlushLoop({}, key, <<"fire">>)
  /\ UNCHANGED <<pendingResolvers, hasOnError, promises, onErrorCalls, consoleErrors>>
  /\ UNCHANGED <<sinceFirstRequest, sinceSaveEnd>>
  /\ UNCHANGED nonQueueVars

\* The error is reported in a finally block, so also when saveFn fulfils.
SaveFnResolvesReports(f) ==
  /\ f.pc = "saveFn"
  /\ IF hasOnError
     THEN /\ onErrorCalls' = Append(onErrorCalls, f.key)
          /\ UNCHANGED consoleErrors
     ELSE /\ consoleErrors' = Append(consoleErrors, f.key)
          /\ UNCHANGED onErrorCalls
  /\ FlushAfterSave(f, "ok")
  /\ UNCHANGED <<debounceTimers, dirtyWhileSaving, hasOnError>>
  /\ sinceSaveEnd' = [sinceSaveEnd EXCEPT ![f.key] = 0]
  /\ UNCHANGED sinceFirstRequest
  /\ UNCHANGED nonQueueVars

\* saveFn(key) fulfils.
SaveFnResolves(f) ==
  /\ f.pc = "saveFn"
  /\ FlushAfterSave(f, "ok")
  /\ UNCHANGED <<debounceTimers, dirtyWhileSaving, hasOnError, onErrorCalls, consoleErrors>>
  /\ sinceSaveEnd' = [sinceSaveEnd EXCEPT ![f.key] = 0]
  /\ UNCHANGED sinceFirstRequest
  /\ UNCHANGED nonQueueVars

\* The catch block: hand the error to onError, or log it. Here onError keeps
\* to its type, (key, error) => void, and returns normally.
ReportError(key) ==
  IF hasOnError
  THEN /\ onErrorCalls' = Append(onErrorCalls, key)
       /\ UNCHANGED consoleErrors
  ELSE /\ consoleErrors' = Append(consoleErrors, key)
       /\ UNCHANGED onErrorCalls

\* No catch around saveFn: the failure is passed on to the waiters, whose
\* promises reject, and reaches no error sink.
SaveFnRejectsPropagates(f) ==
  /\ f.pc = "saveFn"
  /\ log' = [log EXCEPT ![f.key] = @ \o <<"fail", "done">>]
  /\ activeSaves' = activeSaves \ {f.key}
  /\ pendingResolvers' = MapDelete(pendingResolvers, f.key)
  /\ promises' = [i \in DOMAIN promises |->
                    IF promises[i].key = f.key /\ promises[i].state = "pending"
                    THEN [promises[i] EXCEPT !.state = "rejected"]
                    ELSE promises[i]]
  /\ flushes' = flushes \ {f}
  /\ UNCHANGED <<debounceTimers, dirtyWhileSaving, hasOnError, onErrorCalls, consoleErrors>>
  /\ sinceSaveEnd' = [sinceSaveEnd EXCEPT ![f.key] = 0]
  /\ UNCHANGED sinceFirstRequest
  /\ UNCHANGED nonQueueVars

\* A flush that tries a failed save again by itself: after the catch it
\* cools down and loops, dirty or not.
SaveFnRejectsRetries(f) ==
  /\ f.pc = "saveFn"
  /\ ReportError(f.key)
  /\ log' = [log EXCEPT ![f.key] = Append(@, "fail")]
  /\ flushes' = (flushes \ {f}) \cup {[f EXCEPT !.pc = "sleep", !.left = DelayMs]}
  /\ UNCHANGED <<activeSaves, pendingResolvers, promises>>
  /\ UNCHANGED <<debounceTimers, dirtyWhileSaving, hasOnError>>
  /\ sinceSaveEnd' = [sinceSaveEnd EXCEPT ![f.key] = 0]
  /\ UNCHANGED sinceFirstRequest
  /\ UNCHANGED nonQueueVars

\* saveFn(key) throws or rejects.
SaveFnRejects(f) ==
  /\ f.pc = "saveFn"
  /\ ReportError(f.key)
  /\ FlushAfterSave(f, "fail")
  /\ UNCHANGED <<debounceTimers, dirtyWhileSaving, hasOnError>>
  /\ sinceSaveEnd' = [sinceSaveEnd EXCEPT ![f.key] = 0]
  /\ UNCHANGED sinceFirstRequest
  /\ UNCHANGED nonQueueVars

\* flush without its finally block: an exception leaving the loop leaves the
\* key in activeSaves and its waiters pending.
SaveFnRejectsOnErrorThrowsStuck(f) ==
  /\ f.pc = "saveFn"
  /\ hasOnError
  /\ onErrorCalls' = Append(onErrorCalls, f.key)
  /\ log' = [log EXCEPT ![f.key] = @ \o <<"fail", "threw">>]
  /\ flushes' = flushes \ {f}
  /\ UNCHANGED <<activeSaves, pendingResolvers, promises>>
  /\ UNCHANGED <<debounceTimers, dirtyWhileSaving, hasOnError, consoleErrors>>
  /\ sinceSaveEnd' = [sinceSaveEnd EXCEPT ![f.key] = 0]
  /\ UNCHANGED sinceFirstRequest
  /\ UNCHANGED nonQueueVars

\* saveFn(key) throws or rejects and the onError callback, called in the
\* catch block, throws in its turn: the exception leaves the while loop past
\* the dirty test and the cooldown, the finally block runs (the history
\* records "threw" before its "done"), and flush(key) rejects. The dirty mark
\* is cleared only at the top of the loop, so it stays as it is.
SaveFnRejectsOnErrorThrows(f) ==
  /\ f.pc = "saveFn"
  /\ hasOnError
  /\ onErrorCalls' = Append(onErrorCalls, f.key)
  /\ log' = [log EXCEPT ![f.key] = @ \o <<"fail", "threw", "done">>]
  /\ activeSaves' = activeSaves \ {f.key}
  /\ IF MapHas(pendingResolvers, f.key)
     THEN /\ pendingResolvers' = MapDelete(pendingResolvers, f.key)
          /\ promises' = ResolveAll(promises, pendingResolvers[f.key])
     ELSE UNCHANGED <<pendingResolvers, promises>>
  /\ flushes' = flushes \ {f}
  /\ UNCHANGED <<debounceTimers, dirtyWhileSaving, hasOnError, consoleErrors>>
  /\ sinceSaveEnd' = [sinceSaveEnd EXCEPT ![f.key] = 0]
  /\ UNCHANGED sinceFirstRequest
  /\ UNCHANGED nonQueueVars

\* The cooldown sleep(delayMs) of a dirty flush ends: `continue`.
SleepEnds(f) ==
  /\ f.pc = "sleep"
  /\ f.left = 0
  /\ FlushLoop({f}, f.key, <<>>)
  /\ UNCHANGED <<debounceTimers, activeSaves, pendingResolvers, hasOnError,
                 promises, onErrorCalls, consoleErrors>>
  /\ UNCHANGED <<sinceFirstRequest, sinceSaveEnd>>
  /\ UNCHANGED nonQueueVars

\* One unit of time passes: every running timer has one unit less to wait.
\* An expired timer's callback may run arbitrarily later, never earlier.
\* The two measures of elapsed time stop counting at DelayMs.
Inc(n) == IF n < DelayMs THEN n + 1 ELSE DelayMs
Dec(n) == IF n > 0 THEN n - 1 ELSE 0

Tick ==
  /\ \/ \E k \in DOMAIN debounceTimers : debounceTimers[k] > 0
     \/ \E f \in flushes : f.pc = "sleep" /\ f.left > 0
  /\ debounceTimers' = [k \in DOMAIN debounceTimers |-> Dec(debounceTimers[k])]
  /\ flushes' = {[f EXCEPT !.left = Dec(@)] : f \in flushes}
  /\ UNCHANGED <<activeSaves, dirtyWhileSaving, pendingResolvers, hasOnError,
                 promises, log, onErrorCalls, consoleErrors>>
  /\ sinceFirstRequest' = [k \in Keys |-> Inc(sinceFirstRequest[k])]
  /\ sinceSaveEnd' = [k \in Keys |-> Inc(sinceSaveEnd[k])]
  /\ UNCHANGED nonQueueVars

Next ==
  \/ \E key \in Keys : RequestSave(key)
  \/ \E key \in Keys : TimerFire(key)
  \/ \E f \in flushes : SaveFnResolves(f)
  \/ \E f \in flushes : SaveFnRejects(f)
  \/ \E f \in flushes : SleepEnds(f)
  \/ Tick

Spec == Init /\ [][Next]_vars

\* The event loop: time passes, an expired timer's callback runs, and saveFn
\* settles (the claims about termination assume it does).
Fairness ==
  /\ WF_vars(Tick)
  /\ \A key \in Keys : WF_vars(TimerFire(key))
  /\ WF_vars(\E f \in flushes : SaveFnResolves(f) \/ SaveFnRejects(f))
  /\ WF_vars(\E f \in flushes : SleepEnds(f))

FairSpec == Spec /\ Fairness

\* The queue with an onError callback that may throw.
ThrowNext ==
  \/ Next
  \/ \E f \in flushes : SaveFnRejectsOnErrorThrows(f)

ThrowSpec == Init /\ [][ThrowNext]_vars

\* ------------------------------------------------------------ derived state
Idle(key) == ~MapHas(debounceTimers, key) /\ key \notin activeSaves
InFlight(key) == {f \in flushes : f.key = key /\ f.pc = "saveFn"}

\* ---------------------------------------------------- reading the history
Outcomes == {"ok", "fail"}
Count(seq, e) == Cardinality({i \in DOMAIN seq : seq[i] = e})
\* The saveFn call at position s of the history has settled at position e,
\* and only requests were logged in between.
SaveSpan(L, s, e) ==
  /\ s < e
  /\ L[s] = "start"
  /\ L[e] \in Outcomes
  /\ \A m \in (s + 1)..(e - 1) : L[m] = "request"
Resolved(i) == i \in DOMAIN promises /\ promises[i].state = "resolved"

\* ================================================================== claims

\* C1: for every key at most one saveFn invocation is in flight (and at most
\* one flush is running), and a saveFn call for the key is never started
\* before the previous one for that key has settled.
C1_OneSaveInFlight ==
  \A k \in Keys :
    /\ Cardinality(InFlight(k)) <= 1
    /\ Cardinality({f \in flushes : f.key = k}) <= 1
    /\ \A i, j \in DOMAIN log[k] :
         (i < j /\ log[k][i] = "start" /\ log[k][j] = "start")
           => \E m \in (i + 1)..(j - 1) : log[k][m] \in Outcomes

\* A second saveFn call for a key is in flight, after the first one settled,
\* and a request has already arrived during it.
C1_Witness ==
  \E k \in Keys :
    /\ InFlight(k) # {}
    /\ k \in dirtyWhileSaving
    /\ Count(log[k], "start") >= 2

\* C2: each debounce window (the requests made from Idle until the timer
\* fires) holds at least one request and leads to one flush; when no request
\* arrives while its saveFn call is running, that call is the only one: the
\* flush ends with it.
C2_OneSavePerWindow ==
  \A k \in Keys : \A i \in DOMAIN log[k] :
    log[k][i] = "fire" =>
      /\ i > 1 /\ log[k][i - 1] = "request"
      /\ i + 1 <= Len(log[k]) /\ log[k][i + 1] = "start"
      /\ (i + 2 <= Len(log[k]) /\ log[k][i + 2] \in Outcomes)
           => (i + 3 <= Len(log[k]) /\ log[k][i + 3] = "done")
      /\ \A j \in (i + 1)..Len(log[k]) :
           log[k][j] = "fire" => \E m \in (i + 1)..(j - 1) : log[k][m] = "done"

\* Three requests were made in one window and the key is Idle again after
\* exactly one saveFn call.
C2_Witness ==
  \E k \in Keys :
    /\ Idle(k)
    /\ log[k] \in {<<"request", "request", "request", "fire", "start", o, "done">> :
                     o \in Outcomes}

C5_NeverRejects ==
  /\ \A i \in DOMAIN promises : promises[i].state \in {"pending", "resolved"}
  /\ \A k \in Keys :
       /\ Count(log[k], "fail") =
            Count(IF hasOnError THEN onErrorCalls ELSE consoleErrors, k)
       /\ (/\ Len(log[k]) >= 2
           /\ log[k][Len(log[k]) - 1] = "fail"
           /\ log[k][Len(log[k])] = "done")
            => \A i \in DOMAIN promises :
                 promises[i].key = k => promises[i].state = "resolved"

\* A flush ended on a failed saveFn call with two promises waiting.
C5_Witness ==
  \E k \in Keys :
    /\ Len(log[k]) >= 2
    /\ log[k][Len(log[k]) - 1] = "fail"
    /\ log[k][Len(log[k])] = "done"
    /\ Cardinality({i \in DOMAIN promises :
                      promises[i].key = k /\ promises[i].state = "resolved"}) >= 2

\* C6: with an onError callback, onError has been called with key K exactly
\* as often as saveFn(K) has failed, in every reachable state (so once per
\* failure and never for a call that fulfilled), and nothing went to
\* console.error; without one it is never called.
C6_OnErrorOncePerFailure ==
  /\ hasOnError =>
       /\ \A k \in Keys : Count(onErrorCalls, k) = Count(log[k], "fail")
       /\ consoleErrors = <<>>
  /\ ~hasOnError => onErrorCalls = <<>>

\* saveFn failed twice for one key and fulfilled for another, with onError
\* called for the two failures only.
C6_Witness ==
  /\ hasOnError
  /\ \E k1, k2 \in Keys :
       /\ k1 # k2
       /\ Count(log[k1], "fail") = 2
       /\ Count(log[k2], "ok") >= 1
       /\ onErrorCalls = <<k1, k1>>

\* C7: (saveFn always settles, timers fire, requests are finitely many) every
\* promise requestSave returned is eventually resolved, and a key that left
\* Idle eventually is Idle again.
C7_EventuallyResolved ==
  /\ \A i \in 1..MaxRequests : (i \in DOMAIN promises) ~> Resolved(i)
  /\ \A k \in Keys : (~Idle(k)) ~> Idle(k)

\* Every request allowed has been made and resolved, one key having gone
\* through a cooldown and a follow-up save, and all keys are Idle.
C7_Witness ==
  /\ Len(promises) = MaxRequests
  /\ \A i \in DOMAIN promises : Resolved(i)
  /\ \A k \in Keys : Idle(k)
  /\ \E k \in Keys : Count(log[k], "start") >= 2

\* C8: a key that is debouncing, saving or cooling down delays no other key:
\* the other key's running timer still counts down with time, its expired
\* timer can start its flush and its finished cooldown can start the
\* follow-up save.
C8_KeysIndependent ==
  \A k1, k2 \in Keys :
    (k1 # k2 /\ ~Idle(k1)) =>
      /\ (MapHas(debounceTimers, k2) /\ debounceTimers[k2] > 0)
           => ENABLED (Tick /\ debounceTimers'[k2] = debounceTimers[k2] - 1)
      /\ (MapHas(debounceTimers, k2) /\ debounceTimers[k2] = 0)
           => ENABLED TimerFire(k2)
      /\ \A f \in flushes :
           (f.key = k2 /\ f.pc = "sleep" /\ f.left = 0) => ENABLED SleepEnds(f)

\* saveFn is in flight for two distinct keys at once.
C8_Witness ==
  \E k1, k2 \in Keys : k1 # k2 /\ InFlight(k1) # {} /\ InFlight(k2) # {}

\* C13: a saveFn(K) call that failed with no request during it ends its
\* flush: K is Idle with no flush left, and the next thing to happen for K,
\* if anything, is a new request; saveFn(K) is not called again before it.
C13_NoRetryOfFailedSave ==
  \A k \in Keys : \A s \in DOMAIN log[k] :
    (log[k][s] = "start" /\ s + 1 <= Len(log[k]) /\ log[k][s + 1] = "fail") =>
      /\ s + 2 <= Len(log[k]) /\ log[k][s + 2] = "done"
      /\ s + 3 <= Len(log[k]) => log[k][s + 3] = "request"
      /\ s + 2 = Len(log[k]) =>
           (Idle(k) /\ k \notin dirtyWhileSaving /\ \A f \in flushes : f.key # k)

\* A save failed, the key went Idle, and saveFn was called again only after
\* a new request and its debounce.
C13_Witness ==
  \E k \in Keys :
    log[k] = <<"request", "fire", "start", "fail", "done",
               "request", "fire", "start">>

\* The step appends event e to the history of key k.
Logs(k, e) ==
  /\ Len(log'[k]) > Len(log[k])
  /\ \E i \in (Len(log[k]) + 1)..Len(log'[k]) : log'[k][i] = e

\* C14: a requestSave(K) made while K's timer is pending leaves the timer as
\* it is; the timer expires DelayMs after the request that set it, whatever
\* requests follow in the window, and the flush starts when it has expired.
C14_JoinsPendingTimer ==
  /\ [](\A k \in Keys : MapHas(debounceTimers, k) =>
          debounceTimers[k] = DelayMs - sinceFirstRequest[k])
  /\ [][\A k \in Keys :
          /\ (MapHas(debounceTimers, k) /\ Logs(k, "request")) =>
               (MapHas(debounceTimers', k) /\ debounceTimers'[k] = debounceTimers[k])
          /\ Logs(k, "fire") =>
               (MapHas(debounceTimers, k) /\ sinceFirstRequest[k] = DelayMs)]_vars

\* Three requests fell into one window, and its flush has started.
C14_Witness ==
  \E k \in Keys :
    /\ log[k] = <<"request", "request", "request", "fire", "start">>
    /\ sinceFirstRequest[k] = DelayMs

\* C15: the promises of K are resolved by the step that takes K back to Idle
\* and by no other: that step resolves every promise requested for K and
\* empties K's waiter list; a promise is pending when requestSave returns it
\* and stays pending through the save, the cooldown and the follow-up save.
C15_ResolvedTogetherAtIdle ==
  [][\A k \in Keys :
       LET backToIdle == ~Idle(k) /\ Idle(k)'
       IN  /\ backToIdle =>
                /\ \A i \in DOMAIN promises' :
                     promises'[i].key = k => promises'[i].state = "resolved"
                /\ ~MapHas(pendingResolvers', k)
           /\ \A i \in DOMAIN promises' :
                promises'[i].key = k =>
                  IF i \in DOMAIN promises
                  THEN promises'[i].state # promises[i].state =>
                         (backToIdle /\ promises[i].state = "pending")
                  ELSE promises'[i].state = "pending"]_vars

\* K is back at Idle after a save and its follow-up, with the promise of the
\* first request and that of the request made during the save both resolved.
C15_Witness ==
  \E k \in Keys :
    /\ Idle(k)
    /\ log[k] = <<"request", "fire", "start", "request", "ok", "start", "ok", "done">>
    /\ Resolved(1) /\ Resolved(2)
    /\ promises[1].key = k /\ promises[2].key = k

\* C16: saveFn(K) is called only when at least DelayMs has passed since the
\* previous saveFn(K) call settled, for a follow-up save (cooldown) and for
\* the save of a new cycle (debounce) alike.
C16_DelayBetweenSaves ==
  [][\A k \in Keys : Logs(k, "start") => sinceSaveEnd[k] = DelayMs]_vars

\* A follow-up save, and then the save of a new cycle, have both started.
C16_Witness ==
  \E k \in Keys :
    log[k] = <<"request", "fire", "start", "request", "ok", "start", "ok", "done",
               "request", "fire", "start">>

\* C19: a step of the queue for key K1 (a request, the timer firing, saveFn
\* settling, the cooldown ending: the steps that add to K1's history) leaves
\* the timer, the in-flight status, the dirty mark and the waiter list of
\* every other key K2 as they were.
C19_StepLeavesOtherKeys ==
  [][\A k1, k2 \in Keys :
       (k1 # k2 /\ log'[k1] # log[k1]) =>
         /\ MapHas(debounceTimers', k2) = MapHas(debounceTimers, k2)
         /\ MapHas(debounceTimers, k2) => debounceTimers'[k2] = debounceTimers[k2]
         /\ (k2 \in activeSaves') = (k2 \in activeSaves)
         /\ {f \in flushes' : f.key = k2} = {f \in flushes : f.key = k2}
         /\ (k2 \in dirtyWhileSaving') = (k2 \in dirtyWhileSaving)
         /\ MapHas(pendingResolvers', k2) = MapHas(pendingResolvers, k2)
         /\ MapHas(pendingResolvers, k2) => pendingResolvers'[k2] = pendingResolvers[k2]
    ]_vars

\* Key 1 went through a whole cycle after key 2 had been requested again
\* during its save: key 2 is still in flight, dirty, with both its waiters.
C19_Witness ==
  /\ Len(promises) = 3
  /\ promises[1].key = 2 /\ promises[2].key = 2 /\ promises[3].key = 1
  /\ log[1] = <<"request", "fire", "start", "ok", "done">>
  /\ log[2] = <<"request", "fire", "start", "request">>
  /\ 2 \in activeSaves /\ 2 \in dirtyWhileSaving
  /\ pendingResolvers[2] = <<1, 2>>

\* The last event of key k's history that is not a request ("none" if none).
LastStep(k) ==
  LET idx == {i \in DOMAIN log[k] : log[k][i] # "request"}
  IN  IF idx = {} THEN "none"
      ELSE log[k][CHOOSE i \in idx : \A j \in idx : j <= i]

\* The phase of a key, read off the timer map and the active set.
Phase(k) ==
  IF k \in activeSaves THEN "Saving"
  ELSE IF MapHas(debounceTimers, k) THEN "Debouncing"
  ELSE "Idle"

\* C21: a key changes phase only from Idle to Debouncing by a request, from
\* Debouncing to Saving by its timer firing, and from Saving to Idle by a
\* saveFn completion that finds the key not dirty; saveFn is called again
\* within Saving only after a dirty completion and its expired cooldown; a
\* timer is set only for an Idle key (so never a second one), and no key has
\* a timer while its flush cycle is active.
C21_PhaseChanges ==
  /\ [](\A k \in Keys : ~(MapHas(debounceTimers, k) /\ k \in activeSaves))
  /\ [][\A k \in Keys :
          /\ Phase(k)' # Phase(k) =>
                \/ Phase(k) = "Idle" /\ Phase(k)' = "Debouncing" /\ Logs(k, "request")
                \/ Phase(k) = "Debouncing" /\ Phase(k)' = "Saving" /\ Logs(k, "fire")
                \/ /\ Phase(k) = "Saving" /\ Phase(k)' = "Idle"
                   /\ InFlight(k) # {} /\ k \notin dirtyWhileSaving
                   /\ Logs(k, "done")
          /\ (Phase(k) = "Saving" /\ Logs(k, "start")) =>
                /\ \E f \in flushes : f.key = k /\ f.pc = "sleep" /\ f.left = 0
                /\ LastStep(k) \in Outcomes
          /\ (MapHas(debounceTimers', k) /\
                (MapHas(debounceTimers, k) => debounceTimers'[k] > debounceTimers[k]))
                => Idle(k)]_vars

\* A key has gone through all four phase changes: a save, a request during
\* it, the follow-up save, Idle, and a new debounce.
C21_Witness ==
  \E k \in Keys :
    /\ log[k] = <<"request", "fire", "start", "request", "ok", "start", "ok", "done",
                  "request">>
    /\ Phase(k) = "Debouncing"

\* C22: the dirty mark of K is set only by a requestSave(K) made while K is in
\* activeSaves, every step that calls saveFn(K) leaves K not dirty, and in
\* every state a dirty K is in activeSaves.
C22_DirtyOnlyWhileActive ==
  /\ [](\A k \in Keys : k \in dirtyWhileSaving => k \in activeSaves)
  /\ [][\A k \in Keys :
          /\ (k \notin dirtyWhileSaving /\ k \in dirtyWhileSaving') =>
                (Logs(k, "request") /\ k \in activeSaves)
          /\ Logs(k, "start") => k \notin dirtyWhileSaving']_vars

\* The last event before position s of key k's history that is not a request.
LastStepBefore(k, s) ==
  LET idx == {i \in 1..(s - 1) : log[k][i] # "request"}
  IN  IF idx = {} THEN "none"
      ELSE log[k][CHOOSE i \in idx : \A j \in idx : j <= i]

\* C23: a requestSave(K) made during the cooldown of a dirty flush starts
\* nothing (no timer, no flush; K stays active); the follow-up saveFn(K),
\* the one called after a completion and its cooldown, is followed by the end
\* of the flush whenever no request was made while it ran, whatever requests
\* were made during the cooldown; and after the end of the flush K is Idle
\* until a new request.
C23_CooldownRequestsCovered ==
  /\ [](\A k \in Keys :
          /\ \A s \in DOMAIN log[k] :
               (/\ log[k][s] = "start"
                /\ LastStepBefore(k, s) \in Outcomes
                /\ s + 2 <= Len(log[k])
                /\ log[k][s + 1] \in Outcomes) => log[k][s + 2] \in {"done", "threw"}
          /\ (log[k] # <<>> /\ log[k][Len(log[k])] = "done") =>
               (Idle(k) /\ \A f \in flushes : f.key # k))
  /\ [][\A k \in Keys :
          (Logs(k, "request") /\ \E f \in flushes : f.key = k /\ f.pc = "sleep") =>
            /\ flushes' = flushes
            /\ debounceTimers' = debounceTimers
            /\ activeSaves' = activeSaves]_vars

\* A request was made during the save and another during the cooldown; the
\* follow-up save ran undisturbed and the flush ended with it.
C23_Witness ==
  \E k \in Keys :
    /\ log[k] = <<"request", "fire", "start", "request", "ok", "request",
                  "start", "ok", "done">>
    /\ Idle(k)
    /\ \A i \in DOMAIN promises : promises[i].state = "resolved"

\* C24: an Idle key has no entry in the timer map, the active set, the dirty
\* set or the waiter map, and no flush of it is left.
C24_IdleHoldsNoState ==
  \A k \in Keys :
    Idle(k) =>
      /\ ~MapHas(debounceTimers, k)
      /\ k \notin activeSaves
      /\ k \notin dirtyWhileSaving
      /\ ~MapHas(pendingResolvers, k)
      /\ \A f \in flushes : f.key # k

\* The promises of key k that are still pending.
Unresolved(k) ==
  {i \in DOMAIN promises : promises[i].key = k /\ promises[i].state = "pending"}

\* C25: in every state K has an unresolved requestSave promise exactly when
\* K has a pending timer or is in activeSaves; the waiter map has an entry
\* for K in exactly those states, and it lists exactly the unresolved ones.
C25_UnresolvedIffBusy ==
  \A k \in Keys :
    /\ (Unresolved(k) # {}) <=> (MapHas(debounceTimers, k) \/ k \in activeSaves)
    /\ MapHas(pendingResolvers, k) <=> (Unresolved(k) # {})
    /\ MapHas(pendingResolvers, k) =>
         {pendingResolvers[k][i] : i \in DOMAIN pendingResolvers[k]} = Unresolved(k)

\* One key is back at Idle with its promises resolved while another is still
\* saving with two unresolved ones.
C25_Witness ==
  \E k1, k2 \in Keys :
    /\ k1 # k2
    /\ Idle(k1) /\ log[k1] = <<"request", "fire", "start", "ok", "done">>
    /\ Unresolved(k1) = {}
    /\ k2 \in activeSaves /\ Cardinality(Unresolved(k2)) = 2

\* The positions of event e in the history of key k.
Positions(k, e) == {i \in DOMAIN log[k] : log[k][i] = e}

\* C26: every saveFn(K) call comes after a requestSave(K) that was made after
\* the previous saveFn(K) call started (after the beginning, for the first
\* call), so saveFn(K) has never been called more often than requestSave(K).
C26_SaveFnNeedsRequest ==
  \A k \in Keys :
    /\ \A s \in Positions(k, "start") :
         \E r \in Positions(k, "request") :
           /\ r < s
           /\ \A p \in Positions(k, "start") : p < s => p < r
    /\ Cardinality(Positions(k, "start")) <= Cardinality(Positions(k, "request"))

\* saveFn was called three times for three requests: a save, its follow-up,
\* and the save of a new cycle.
C26_Witness ==
  \E k \in Keys :
    log[k] = <<"request", "fire", "start", "request", "fail", "start", "ok", "done",
               "request", "fire", "start">>

\* C27: the step in which onError throws takes K out of activeSaves, resolves
\* every promise requested for K and leaves K Idle with no waiter entry and
\* no flush; the next requestSave(K) after a flush of K has ended that way
\* finds K Idle and sets a debounce timer of DelayMs, and the firing of a
\* timer calls saveFn(K).
C27_OnErrorThrowsStillReleases ==
  /\ [][\A k \in Keys :
          /\ Logs(k, "threw") =>
                /\ k \notin activeSaves'
                /\ ~MapHas(pendingResolvers', k)
                /\ \A i \in DOMAIN promises' :
                     promises'[i].key = k => promises'[i].state = "resolved"
                /\ \A f \in flushes' : f.key # k
                /\ Idle(k)'
          /\ (/\ Logs(k, "request")
              /\ Len(log[k]) >= 2
              /\ log[k][Len(log[k]) - 1] = "threw"
              /\ log[k][Len(log[k])] = "done") =>
                /\ Idle(k)
                /\ MapHas(debounceTimers', k) /\ debounceTimers'[k] = DelayMs
          /\ Logs(k, "fire") => Logs(k, "start") /\ InFlight(k)' # {}]_vars
  /\ [](\A k \in Keys :
          (log[k] # <<>> /\ log[k][Len(log[k])] = "done") => Idle(k))

\* onError threw at the end of a save during which a request had arrived; both
\* promises were resolved, and a later request led to a new debounce and a
\* new saveFn call.
C27_Witness ==
  \E k \in Keys :
    /\ log[k] = <<"request", "fire", "start", "request", "fail", "threw", "done",
                  "request", "fire", "start">>
    /\ Resolved(1) /\ Resolved(2) /\ ~Resolved(3)
    /\ InFlight(k) # {}

\* ============================================================ atomicWriteFile
QueueIdle ==
  /\ debounceTimers = EmptyMap
  /\ activeSaves = {}
  /\ dirtyWhileSaving = {}
  /\ pendingResolvers = EmptyMap
  /\ hasOnError = FALSE
  /\ flushes = {}
  /\ promises = <<>>
  /\ log = [k \in Keys |-> <<>>]
  /\ onErrorCalls = <<>>
  /\ consoleErrors = <<>>
  /\ sinceFirstRequest = [k \in Keys |-> DelayMs]
  /\ sinceSaveEnd = [k \in Keys |-> DelayMs]

WINDOWS_TRANSIENT_CODES == {"EPERM", "EBUSY", "EACCES"}
RENAME_MAX_RETRIES == IF isWindows THEN 3 ELSE 1
\* The error codes a failing rename is given here: the three transient ones
\* and one that is not.
RenameCodes == WINDOWS_TRANSIENT_CODES \cup {"ENOENT"}

\* The target path may hold a file written by an earlier run.
FileInit ==
  /\ QueueIdle
  /\ JsonIdle
  /\ StoreIdle
  /\ WriteIdle
  /\ LockIdle
  /\ EntityIdle
  /\ isWindows \in BOOLEAN
  /\ target \in {NoFile} \cup {File(c) : c \in Strings}
  /\ tmp = NoFile
  /\ call = NoCall

Running == call.pc \notin {"idle", "returned", "threw", "crashed"}

\* atomicWriteFile(filePath, data) is called (one call at a time on the path).
\* Besides the loop variable `attempt` and the error to throw, the call keeps
\* its history: `before` (the target as the call found it), `renamed` (a
\* rename succeeded), `tried` (the codes of the failed renames, in order),
\* `gaveUp` (the last failed rename was not retried) and `unlink` (the outcome
\* of the cleanup: "no" while there was none, "ok" or "failed").
AtomicWriteFile(data) ==
  /\ call.pc \in {"idle", "returned", "threw"}
  /\ call' = [pc |-> "open", data |-> data, attempt |-> 0, before |-> target,
              renamed |-> FALSE, error |-> "none", tried |-> <<>>,
              gaveUp |-> FALSE, unlink |-> "no"]
  /\ UNCHANGED <<isWindows, target, tmp>>
  /\ UNCHANGED nonFileVars

\* The payload written straight to filePath: the target itself is truncated.
WriteFileOpenInPlace ==
  /\ call.pc = "open"
  /\ target' = File(<<>>)
  /\ tmp' = File(<<>>)
  /\ call' = [call EXCEPT !.pc = "write"]
  /\ UNCHANGED isWindows
  /\ UNCHANGED nonFileVars

\* fs.writeFile(tmpPath, data): the temp file is created or truncated ...
WriteFileOpen ==
  /\ call.pc = "open"
  /\ tmp' = File(<<>>)
  /\ call' = [call EXCEPT !.pc = "write"]
  /\ UNCHANGED <<isWindows, target>>
  /\ UNCHANGED nonFileVars

\* ... and filled byte by byte, until it holds the whole payload.
WriteFileChunk ==
  /\ call.pc = "write"
  /\ LET have == tmp.content
     IN  IF have = call.data
         THEN /\ call' = [call EXCEPT !.pc = "rename"]
              /\ UNCHANGED tmp
         ELSE /\ tmp' = File(Append(have, call.data[Len(have) + 1]))
              /\ UNCHANGED call
  /\ UNCHANGED <<isWindows, target>>
  /\ UNCHANGED nonFileVars

\* fs.writeFile fails (at the open or in the middle): it is outside every
\* try block, so the error leaves atomicWriteFile at once.
WriteFileFails ==
  /\ call.pc \in {"open", "write"}
  /\ call' = [call EXCEPT !.pc = "threw", !.error = "EIO"]
  /\ UNCHANGED <<isWindows, target, tmp>>
  /\ UNCHANGED nonFileVars

\* fs.rename(tmpPath, filePath) succeeds: atomically, the target is the temp
\* file and the temp path is gone.
RenameSucceeds ==
  /\ call.pc = "rename"
  /\ target' = tmp
  /\ tmp' = NoFile
  /\ call' = [call EXCEPT !.pc = "renamed", !.renamed = TRUE]
  /\ UNCHANGED isWindows
  /\ UNCHANGED nonFileVars

\* `return` after the rename.
Return ==
  /\ call.pc = "renamed"
  /\ call' = [call EXCEPT !.pc = "returned"]
  /\ UNCHANGED <<isWindows, target, tmp>>
  /\ UNCHANGED nonFileVars

\* The catch block without `throw error`: after the cleanup the loop is left
\* and the call returns normally.
RenameFailsSwallowed(code) ==
  /\ call.pc = "rename"
  /\ LET retryable == isWindows /\ code \in WINDOWS_TRANSIENT_CODES
     IN  IF retryable /\ call.attempt < RENAME_MAX_RETRIES - 1
         THEN call' = [call EXCEPT !.pc = "sleep", !.tried = Append(@, code)]
         ELSE call' = [call EXCEPT !.pc = "returned", !.tried = Append(@, code),
                                   !.gaveUp = TRUE]
  /\ UNCHANGED <<isWindows, target, tmp>>
  /\ UNCHANGED nonFileVars

\* The catch block retrying every error code on Windows, not only the
\* transient ones.
RenameFailsRetriesAnyCode(code) ==
  /\ call.pc = "rename"
  /\ IF isWindows /\ call.attempt < RENAME_MAX_RETRIES - 1
     THEN call' = [call EXCEPT !.pc = "sleep", !.tried = Append(@, code)]
     ELSE call' = [call EXCEPT !.pc = "unlink", !.error = code,
                               !.tried = Append(@, code), !.gaveUp = TRUE]
  /\ UNCHANGED <<isWindows, target, tmp>>
  /\ UNCHANGED nonFileVars

\* fs.rename fails with `code` and changes nothing: the catch block retries
\* after a sleep, or goes on to the cleanup.
RenameFails(code) ==
  /\ call.pc = "rename"
  /\ LET retryable == isWindows /\ code \in WINDOWS_TRANSIENT_CODES
     IN  IF retryable /\ call.attempt < RENAME_MAX_RETRIES - 1
         THEN call' = [call EXCEPT !.pc = "sleep", !.tried = Append(@, code)]
         ELSE call' = [call EXCEPT !.pc = "unlink", !.error = code,
                                   !.tried = Append(@, code), !.gaveUp = TRUE]
  /\ UNCHANGED <<isWindows, target, tmp>>
  /\ UNCHANGED nonFileVars

\* sleep(RENAME_RETRY_MS) is over: `continue`, attempt++.
RetrySleepEnds ==
  /\ call.pc = "sleep"
  /\ call' = [call EXCEPT !.pc = "rename", !.attempt = @ + 1]
  /\ UNCHANGED <<isWindows, target, tmp>>
  /\ UNCHANGED nonFileVars

\* The cleanup without its own try/catch: a failing unlink throws its error
\* in place of the rename's.
UnlinkFailurePropagates(ok) ==
  /\ call.pc = "unlink"
  /\ tmp' = IF ok THEN NoFile ELSE tmp
  /\ call' = [call EXCEPT !.pc = "threw",
                          !.unlink = IF ok THEN "ok" ELSE "failed",
                          !.error = IF ok THEN @ ELSE "unlink failed"]
  /\ UNCHANGED <<isWindows, target>>
  /\ UNCHANGED nonFileVars

\* fs.unlink(tmpPath) in the catch block; its own failure is ignored. Then
\* `throw error`.
Unlink(ok) ==
  /\ call.pc = "unlink"
  /\ tmp' = IF ok THEN NoFile ELSE tmp
  /\ call' = [call EXCEPT !.pc = "threw", !.unlink = IF ok THEN "ok" ELSE "failed"]
  /\ UNCHANGED <<isWindows, target>>
  /\ UNCHANGED nonFileVars

\* The process dies in the middle of a call; the files stay as they are.
Crash ==
  /\ Running
  /\ call' = [call EXCEPT !.pc = "crashed"]
  /\ UNCHANGED <<isWindows, target, tmp>>
  /\ UNCHANGED nonFileVars

\* The program is started again. The new process has the old one's pid, and
\* finds the temp file as the crash left it, or another pid, and then its own
\* temp path names no file.
Restart(samePid) ==
  /\ call.pc = "crashed"
  /\ tmp' = IF samePid THEN tmp ELSE NoFile
  /\ call' = NoCall
  /\ UNCHANGED <<isWindows, target>>
  /\ UNCHANGED nonFileVars

FileNext ==
  \/ \E data \in Strings : AtomicWriteFile(data)
  \/ WriteFileOpen
  \/ WriteFileChunk
  \/ WriteFileFails
  \/ RenameSucceeds
  \/ Return
  \/ \E code \in RenameCodes : RenameFails(code)
  \/ RetrySleepEnds
  \/ \E ok \in BOOLEAN : Unlink(ok)
  \/ Crash
  \/ \E samePid \in BOOLEAN : Restart(samePid)

FileSpec == FileInit /\ [][FileNext]_vars

\* C9: from the start of an atomicWriteFile(path, data) call on, also after a
\* crash at any step, the target is what it was before the call (a file, or
\* absent) or is exactly the payload; a part of the payload is never there.
C9_TargetOldOrNew ==
  call.pc # "idle" => target \in {call.before, File(call.data)}

\* The process crashed with only a part of the payload in the temp file, and
\* the target still is the different file it was before.
C9_Witness ==
  /\ call.pc = "crashed"
  /\ tmp.exists
  /\ Len(tmp.content) > 0
  /\ Len(tmp.content) < Len(call.data)
  /\ call.before.exists
  /\ call.before.content # tmp.content
  /\ call.before # File(call.data)
  /\ target = call.before

\* C10: a call that returned normally has renamed, and the target is the
\* payload; a call that ended with an error has not renamed and the target is
\* as before the call; after a crash the target is as before the call if the
\* rename had not happened, and the payload if it had.
C10_ReturnIffRenamed ==
  /\ call.pc = "returned" => (call.renamed /\ target = File(call.data))
  /\ call.pc = "threw" => (~call.renamed /\ target = call.before)
  /\ call.pc = "crashed" =>
       target = (IF call.renamed THEN File(call.data) ELSE call.before)

\* A call returned normally after a failed and retried rename, having
\* replaced a different file.
C10_Witness ==
  /\ call.pc = "returned"
  /\ call.attempt > 0
  /\ call.before.exists
  /\ call.before # File(call.data)
  /\ target = File(call.data)

\* The renames a call has attempted so far, and the failed ones among them
\* that were retried.
RenameAttempts == Len(call.tried) + (IF call.renamed THEN 1 ELSE 0)
Retried == IF call.gaveUp THEN SubSeq(call.tried, 1, Len(call.tried) - 1)
           ELSE call.tried

\* C11: a call attempts the rename at most 3 times; every failed rename that
\* was retried failed on Windows with EPERM, EBUSY or EACCES; so off Windows,
\* or when the first failure has another code, the call gives up after exactly
\* one attempt.
C11_RetryOnlyTransientOnWindows ==
  call.pc # "idle" =>
    /\ RenameAttempts <= 3
    /\ \A i \in DOMAIN Retried :
         isWindows /\ Retried[i] \in {"EPERM", "EBUSY", "EACCES"}
    /\ (~isWindows \/ (call.tried # <<>> /\ call.tried[1] \notin {"EPERM", "EBUSY", "EACCES"}))
         => (RenameAttempts <= 1 /\ (call.tried # <<>> => call.gaveUp))

\* On Windows a call gave up after three renames that failed with transient
\* codes.
C11_Witness ==
  /\ call.pc = "threw"
  /\ isWindows
  /\ call.gaveUp
  /\ Len(call.tried) = 3
  /\ call.tried[3] = "EBUSY"

\* C12: once a failed rename is not retried, the error to throw is that
\* rename's; the call throws only after it has tried to unlink the temp file,
\* and throws the rename's error whether the unlink worked or failed.
C12_CleanupThenRenameError ==
  (call.pc # "idle" /\ call.gaveUp) =>
    /\ call.pc \in {"unlink", "threw", "crashed"}
    /\ call.error = call.tried[Len(call.tried)]
    /\ call.pc = "threw" => call.unlink \in {"ok", "failed"}
    /\ call.unlink = "ok" => ~tmp.exists

\* A call threw the rename's error after an unlink that failed: the temp file
\* is still there.
C12_Witness ==
  /\ call.pc = "threw"
  /\ call.gaveUp
  /\ call.unlink = "failed"
  /\ call.error = "ENOENT"
  /\ tmp.exists

\* C29: a call that has ended with an error, from fs.writeFile or from
\* fs.rename, has attempted the unlink of the temp file, and when the unlink
\* succeeded the temp path names no file.
C29_ErrorMeansCleanupTried ==
  call.pc = "threw" =>
    /\ call.unlink \in {"ok", "failed"}
    /\ call.unlink = "ok" => ~tmp.exists

\* ============================================================ JSON text
\* A value as JSON.stringify sees it (Null and NoValue are defined above). Besides what JSON can express (null,
\* booleans, numbers, strings, arrays, objects) a record of the stores holds
\* Date fields, and a field may be undefined.
Bool(b) == [t |-> "bool", b |-> b]
Num(n) == [t |-> "num", n |-> n]
Str(s) == [t |-> "str", s |-> s]
DateOf(ms) == [t |-> "date", ms |-> ms]
Undefined == [t |-> "undefined"]
Arr(items) == [t |-> "arr", items |-> items]
Obj(fields) == [t |-> "obj", fields |-> fields]

\* Date.prototype.toISOString, shortened to the year.
ToISOString(ms) == <<"1", "9", "7", ToString(ms)>>

Digits == {"0", "1", "2", "3", "4", "5", "6", "7", "8", "9"}
DigitValue(c) == CHOOSE n \in 0..9 : ToString(n) = c
Whitespace == {" ", "\n"}
Indent(n) == [i \in 1..(2 * n) |-> " "]

RECURSIVE Escape(_)
Escape(s) ==
  IF Len(s) = 0 THEN <<>>
  ELSE (IF Head(s) \in {"\"", "\\"} THEN <<"\\", Head(s)>> ELSE <<Head(s)>>)
       \o Escape(Tail(s))

\* A string written without escaping what is inside it.
QuoteRaw(s) == <<"\"">> \o s \o <<"\"">>

Quote(s) == <<"\"">> \o Escape(s) \o <<"\"">>

RECURSIVE Serialize(_, _), SerializeItems(_, _), SerializeFields(_, _)
\* JSON.stringify(value, null, 2) at nesting depth n; <<>> stands for the
\* result undefined (no JSON text is empty).
Serialize(value, n) ==
  CASE value.t = "null" -> <<"n", "u", "l", "l">>
    [] value.t = "bool" -> IF value.b THEN <<"t", "r", "u", "e">>
                                       ELSE <<"f", "a", "l", "s", "e">>
    [] value.t = "num" -> <<ToString(value.n)>>
    [] value.t = "str" -> Quote(value.s)
    [] value.t = "date" -> Quote(ToISOString(value.ms))
    [] value.t = "undefined" -> <<>>
    [] value.t = "arr" ->
         IF Len(value.items) = 0 THEN <<"[", "]">>
         ELSE <<"[">> \o SerializeItems(value.items, n + 1)
                      \o <<"\n">> \o Indent(n) \o <<"]">>
    [] value.t = "obj" ->
         LET fields == SelectSeq(value.fields, LAMBDA f : f[2].t # "undefined")
         IN  IF Len(fields) = 0 THEN <<"{", "}">>
             ELSE <<"{">> \o SerializeFields(fields, n + 1)
                          \o <<"\n">> \o Indent(n) \o <<"}">>

\* The elements of an array, one per line; an undefined element becomes null.
SerializeItems(items, n) ==
  LET item == IF Head(items).t = "undefined" THEN Null ELSE Head(items)
      line == <<"\n">> \o Indent(n) \o Serialize(item, n)
  IN  IF Len(items) = 1 THEN line
      ELSE line \o <<",">> \o SerializeItems(Tail(items), n)

\* The properties of an object, one per line, in insertion order.
SerializeFields(fields, n) ==
  LET f == Head(fields)
      line == <<"\n">> \o Indent(n) \o Quote(f[1]) \o <<":", " ">> \o Serialize(f[2], n)
  IN  IF Len(fields) = 1 THEN line
      ELSE line \o <<",">> \o SerializeFields(Tail(fields), n)

Stringify(value) == Serialize(value, 0)

\* ---- JSON.parse: a result is [ok, v, next], next the index after the value
Fail == [ok |-> FALSE, v |-> NoValue, next |-> 0]
Ok(v, next) == [ok |-> TRUE, v |-> v, next |-> next]
At(s, i) == IF i \in DOMAIN s THEN s[i] ELSE "EOF"

RECURSIVE SkipWhitespace(_, _)
SkipWhitespace(s, i) ==
  IF At(s, i) \in Whitespace THEN SkipWhitespace(s, i + 1) ELSE i

\* The literal `word` is at index i of s.
Literal(s, i, word, v) ==
  IF i + Len(word) - 1 <= Len(s) /\ SubSeq(s, i, i + Len(word) - 1) = word
  THEN Ok(v, i + Len(word))
  ELSE Fail

RECURSIVE ParseDigits(_, _, _)
ParseDigits(s, i, n) ==
  IF At(s, i) \in Digits THEN ParseDigits(s, i + 1, 10 * n + DigitValue(s[i]))
  ELSE Ok(Num(n), i)

\* The characters of a string up to its closing quote, escapes undone.
RECURSIVE ParseChars(_, _, _)
ParseChars(s, i, acc) ==
  CASE At(s, i) = "\"" -> Ok(Str(acc), i + 1)
    [] At(s, i) = "\\" ->
         IF At(s, i + 1) \in {"\"", "\\"}
         THEN ParseChars(s, i + 2, Append(acc, s[i + 1]))
         ELSE Fail
    [] At(s, i) \in {"EOF", "\n"} -> Fail
    [] OTHER -> ParseChars(s, i + 1, Append(acc, s[i]))

RECURSIVE ParseValue(_, _), ParseItems(_, _, _), ParseFields(_, _, _)
ParseValue(s, i) ==
  CASE At(s, i) = "n" -> Literal(s, i, <<"n", "u", "l", "l">>, Null)
    [] At(s, i) = "t" -> Literal(s, i, <<"t", "r", "u", "e">>, Bool(TRUE))
    [] At(s, i) = "f" -> Literal(s, i, <<"f", "a", "l", "s", "e">>, Bool(FALSE))
    [] At(s, i) \in Digits -> ParseDigits(s, i, 0)
    [] At(s, i) = "\"" -> ParseChars(s, i + 1, <<>>)
    [] At(s, i) = "[" ->
         LET j == SkipWhitespace(s, i + 1)
         IN  IF At(s, j) = "]" THEN Ok(Arr(<<>>), j + 1)
             ELSE ParseItems(s, j, <<>>)
    [] At(s, i) = "{" ->
         LET j == SkipWhitespace(s, i + 1)
         IN  IF At(s, j) = "}" THEN Ok(Obj(<<>>), j + 1)
             ELSE ParseFields(s, j, <<>>)
    [] OTHER -> Fail

\* Elements from index i on, after `acc`, up to the closing bracket.
ParseItems(s, i, acc) ==
  LET r == ParseValue(s, i)
      j == SkipWhitespace(s, r.next)
  IN  IF ~r.ok THEN Fail
      ELSE CASE At(s, j) = "," ->
                  ParseItems(s, SkipWhitespace(s, j + 1), Append(acc, r.v))
             [] At(s, j) = "]" -> Ok(Arr(Append(acc, r.v)), j + 1)
             [] OTHER -> Fail

\* Properties from index i on, after `acc`, up to the closing brace.
ParseFields(s, i, acc) ==
  LET k == IF At(s, i) = "\"" THEN ParseChars(s, i + 1, <<>>) ELSE Fail
      c == SkipWhitespace(s, k.next)
      r == IF k.ok /\ At(s, c) = ":"
           THEN ParseValue(s, SkipWhitespace(s, c + 1)) ELSE Fail
      j == SkipWhitespace(s, r.next)
  IN  IF ~r.ok THEN Fail
      ELSE CASE At(s, j) = "," ->
                  ParseFields(s, SkipWhitespace(s, j + 1), Append(acc, <<k.v.s, r.v>>))
             [] At(s, j) = "}" -> Ok(Obj(Append(acc, <<k.v.s, r.v>>)), j + 1)
             [] OTHER -> Fail

\* JSON.parse(text): the value, or NoValue for a SyntaxError.
Parse(text) ==
  LET r == ParseValue(text, SkipWhitespace(text, 1))
  IN  IF r.ok /\ SkipWhitespace(text, r.next) = Len(text) + 1 THEN r.v ELSE NoValue


\* ---- the values handed to writeJsonFile
StrContents == {<<"a">>, <<"\"">>, ToISOString(0)}
Scalars == {Null, Bool(TRUE), Bool(FALSE), Num(1), DateOf(0), Undefined}
             \cup {Str(c) : c \in StrContents}
ArraysOf(S) == {Arr(items) : items \in UNION {[1..n -> S] : n \in 0..MaxLen}}
ObjectsOf(S) == {Obj(<<>>)} \cup {Obj(<< <<(<<"k">>), x>> >>) : x \in S}
Composites == ArraysOf(Scalars) \cup ObjectsOf(Scalars)
Values ==
  Scalars \cup Composites \cup ObjectsOf(Composites)
    \cup {Obj(<< <<(<<"k">>), x>>, <<(<<"n", "\"">>), y>> >>) : x, y \in Scalars}

\* What JSON can express: no Date and no undefined anywhere in the value.
RECURSIVE IsJson(_)
IsJson(value) ==
  CASE value.t \in {"date", "undefined", "none"} -> FALSE
    [] value.t = "arr" -> \A i \in DOMAIN value.items : IsJson(value.items[i])
    [] value.t = "obj" -> \A i \in DOMAIN value.fields : IsJson(value.fields[i][2])
    [] OTHER -> TRUE

\* ======================= ensureDirectoryExists, writeJsonFile, readJsonFile
\* A data directory in any state, with or without a damaged JSON file from an
\* earlier run; the caller holds one value.
JsonInit ==
  /\ QueueIdle
  /\ FileIdle
  /\ StoreIdle
  /\ WriteIdle
  /\ LockIdle
  /\ EntityIdle
  /\ knownDirectories = {}
  /\ disk \in [Dirs -> {"none", "dir", "file"}]
  /\ jsonFiles \in [Dirs -> {NoFile, File(<<"{">>)}]
  /\ \A d \in Dirs : jsonFiles[d].exists => disk[d] = "dir"
  /\ datum \in Values
  /\ jcall = IdleCall
  /\ written = [d \in Dirs |-> NoValue]

CallFree == jcall.pc \in {"idle", "returned", "threw"}

\* The body of ensureDirectoryExists up to its await, in a call of `op`;
\* `next` is where the caller goes on when the directory is known.
EnsureStart(op, dirPath, next) ==
  jcall' = IF dirPath \in knownDirectories
           THEN [IdleCall EXCEPT !.pc = next, !.op = op, !.dir = dirPath,
                                 !.cached = TRUE]
           ELSE [IdleCall EXCEPT !.pc = "mkdir", !.op = op, !.dir = dirPath]

\* ensureDirectoryExists(dirPath) is called.
EnsureDirectoryExists(dirPath) ==
  /\ CallFree
  /\ EnsureStart("ensureDirectoryExists", dirPath, "returned")
  /\ UNCHANGED <<knownDirectories, disk, jsonFiles, datum, written>>
  /\ UNCHANGED nonJsonVars

\* writeJsonFile(filePath, datum) is called, filePath the JSON path in dirPath.
WriteJsonFile(dirPath) ==
  /\ CallFree
  /\ EnsureStart("writeJsonFile", dirPath, "atomicWriteFile")
  /\ UNCHANGED <<knownDirectories, disk, jsonFiles, datum, written>>
  /\ UNCHANGED nonJsonVars

\* The directory recorded whatever fs.mkdir reported (add in a finally block).
MkdirRecordsAlways(result) ==
  /\ jcall.pc = "mkdir"
  /\ (result = "EEXIST") => disk[jcall.dir] = "file"
  /\ (result = "ok") => disk[jcall.dir] # "file"
  /\ knownDirectories' = knownDirectories \cup {jcall.dir}
  /\ IF result \in {"ok", "EEXIST"}
     THEN /\ jcall' = [jcall EXCEPT
                         !.pc = IF jcall.op = "writeJsonFile"
                                THEN "atomicWriteFile" ELSE "returned",
                         !.mkdir = result]
          /\ disk' = IF result = "ok" THEN [disk EXCEPT ![jcall.dir] = "dir"] ELSE disk
     ELSE /\ jcall' = [jcall EXCEPT !.pc = "threw", !.mkdir = result, !.error = result]
          /\ UNCHANGED disk
  /\ UNCHANGED <<jsonFiles, datum, written>>
  /\ UNCHANGED nonJsonVars

\* fs.mkdir(dirPath, { recursive: true }) settles: it creates the directory
\* (or finds it), reports EEXIST for a path taken by a file, or fails
\* otherwise. ensureDirectoryExists swallows EEXIST and records the path.
Mkdir(result) ==
  /\ jcall.pc = "mkdir"
  /\ (result = "EEXIST") => disk[jcall.dir] = "file"
  /\ (result = "ok") => disk[jcall.dir] # "file"
  /\ IF result \in {"ok", "EEXIST"}
     THEN /\ knownDirectories' = knownDirectories \cup {jcall.dir}
          /\ jcall' = [jcall EXCEPT
                         !.pc = IF jcall.op = "writeJsonFile"
                                THEN "atomicWriteFile" ELSE "returned",
                         !.mkdir = result]
          /\ disk' = IF result = "ok" THEN [disk EXCEPT ![jcall.dir] = "dir"] ELSE disk
     ELSE /\ jcall' = [jcall EXCEPT !.pc = "threw", !.mkdir = result, !.error = result]
          /\ UNCHANGED <<knownDirectories, disk>>
  /\ UNCHANGED <<jsonFiles, datum, written>>
  /\ UNCHANGED nonJsonVars

\* writeJsonFile goes on: JSON.stringify(data, null, 2), then atomicWriteFile,
\* which replaces the file by the text and returns, or leaves it and throws.
\* For the text undefined fs.writeFile throws before it writes.
AtomicWriteSettles(ok) ==
  /\ jcall.pc = "atomicWriteFile"
  /\ LET json == Stringify(datum)
     IN  /\ ok => (json # <<>> /\ disk[jcall.dir] = "dir")
         /\ IF ok
            THEN /\ jsonFiles' = [jsonFiles EXCEPT ![jcall.dir] = File(json)]
                 /\ written' = [written EXCEPT ![jcall.dir] = datum]
                 /\ jcall' = [jcall EXCEPT !.pc = "returned"]
            ELSE /\ jcall' = [jcall EXCEPT
                                !.pc = "threw",
                                !.error = IF json = <<>> THEN "ERR_INVALID_ARG_TYPE"
                                          ELSE "EIO"]
                 /\ UNCHANGED <<jsonFiles, written>>
  /\ UNCHANGED <<knownDirectories, disk, datum>>
  /\ UNCHANGED nonJsonVars

\* readJsonFile(filePath): null for a missing file, the parsed content
\* otherwise; a read error other than ENOENT and a SyntaxError are thrown.
ReadJsonFile(dirPath, readFails) ==
  /\ CallFree
  /\ LET c == [IdleCall EXCEPT !.op = "readJsonFile", !.dir = dirPath]
         file == jsonFiles[dirPath]
     IN  jcall' =
           IF ~file.exists
           THEN [c EXCEPT !.pc = "returned", !.result = Null]
           ELSE IF readFails
           THEN [c EXCEPT !.pc = "threw", !.error = "EACCES"]
           ELSE IF Parse(file.content) = NoValue
           THEN [c EXCEPT !.pc = "threw", !.error = "SyntaxError"]
           ELSE [c EXCEPT !.pc = "returned", !.result = Parse(file.content)]
  /\ UNCHANGED <<knownDirectories, disk, jsonFiles, datum, written>>
  /\ UNCHANGED nonJsonVars

JsonNext ==
  \/ \E d \in Dirs : EnsureDirectoryExists(d)
  \/ \E d \in Dirs : WriteJsonFile(d)
  \/ \E result \in {"ok", "EEXIST", "EACCES"} : Mkdir(result)
  \/ \E ok \in BOOLEAN : AtomicWriteSettles(ok)
  \/ \E d \in Dirs, readFails \in BOOLEAN : ReadJsonFile(d, readFails)

JsonSpec == JsonInit /\ [][JsonNext]_vars

\* C17: after writeJsonFile(p, v) has returned for a value v that JSON can
\* express, a readJsonFile(p) that gets to read the file returns a value
\* equal to v; it does not throw a SyntaxError.
C17_JsonRoundTrip ==
  (/\ jcall.op = "readJsonFile"
   /\ jcall.pc \in {"returned", "threw"}
   /\ jcall.error # "EACCES"
   /\ written[jcall.dir] # NoValue
   /\ IsJson(written[jcall.dir]))
    => (jcall.pc = "returned" /\ jcall.result = written[jcall.dir])

\* An object holding an array with a string that needs escaping was written
\* over a damaged file and read back.
C17_Witness ==
  /\ jcall.op = "readJsonFile" /\ jcall.pc = "returned"
  /\ written[jcall.dir] = Obj(<< <<(<<"k">>), Arr(<<Str(<<"\"">>), Num(1)>>)>> >>)
  /\ jcall.result = written[jcall.dir]

\* C18: a path enters knownDirectories only in the step in which fs.mkdir
\* for it succeeded or reported EEXIST; a call for a recorded path issues no
\* fs.mkdir; any other fs.mkdir error is thrown to the caller and the path
\* stays unrecorded. No path ever leaves the set.
C18_KnownOnlyAfterMkdir ==
  /\ [][/\ knownDirectories \subseteq knownDirectories'
        /\ \A d \in knownDirectories' \ knownDirectories :
             /\ jcall.pc = "mkdir" /\ jcall.dir = d
             /\ jcall'.mkdir \in {"ok", "EEXIST"}
        /\ (jcall.pc = "mkdir" /\ jcall'.mkdir \notin {"ok", "EEXIST"}) =>
             /\ jcall'.pc = "threw" /\ jcall'.error = jcall'.mkdir
             /\ jcall.dir \notin knownDirectories'
        /\ (jcall.pc # "mkdir" /\ jcall'.pc = "mkdir") =>
             jcall'.dir \notin knownDirectories]_vars
  /\ [](jcall.cached => jcall.mkdir = "none")

\* A second ensureDirectoryExists for a path recorded after EEXIST returned
\* without a creation call, while fs.mkdir had failed for the other path.
C18_Witness ==
  /\ jcall.op = "ensureDirectoryExists" /\ jcall.pc = "returned" /\ jcall.cached
  /\ jcall.dir = "d1" /\ disk["d1"] = "file"
  /\ knownDirectories = {"d1"}


\* ================================== the agent store and the location store
AgentIds == {1, 2}
LocationIds == {1, 2}
EntityKeys == {"agent:1"}
Summaries == {"", "s"}

\* The records initialize() loads: an agent's state, a location's state and
\* its entity states.
NewAgent == [summary |-> ""]
NewLocation == [agentIds |-> {}, entityStates |-> EmptyMap]

\* The stores have loaded the models of some of the ids.
StoreInit ==
  /\ QueueIdle
  /\ FileIdle
  /\ JsonIdle
  /\ WriteIdle
  /\ LockIdle
  /\ EntityIdle
  /\ agents \in UNION {[S -> {NewAgent}] : S \in SUBSET AgentIds}
  /\ locations \in UNION {[S -> {NewLocation}] : S \in SUBSET LocationIds}
  /\ saveQueue = {}
  /\ unsaved = {}
  /\ scall = NoStoreCall

\* What the call leaves in `scall`; seq tells one call from the next.
Called(op, store, id, outcome, error) ==
  scall' = [op |-> op, store |-> store, id |-> id, outcome |-> outcome,
            error |-> error, seq |-> 1 - scall.seq]

\* saveState(id): a pending timer of the id is cleared (and its promise
\* resolved), a new one is set. The caller's promise stays pending.
SaveState(store, id) ==
  /\ saveQueue' = saveQueue \cup {<<store, id>>}
  /\ unsaved' = unsaved \cup {<<store, id>>}

\* The summary set and the save scheduled before the agent is looked up.
UpdateAgentStateSummarySavesFirst(agentId, summary) ==
  /\ SaveState("agent", agentId)
  /\ IF ~MapHas(agents, agentId)
     THEN /\ Called("updateAgentStateSummary", "agent", agentId, "threw", "Agent not found")
          /\ UNCHANGED agents
     ELSE /\ agents' = [agents EXCEPT ![agentId].summary = summary]
          /\ Called("updateAgentStateSummary", "agent", agentId, "saving", "none")
  /\ UNCHANGED locations
  /\ UNCHANGED nonStoreVars

\* AgentStorage.updateAgentStateSummary(agentId, summary)
UpdateAgentStateSummary(agentId, summary) ==
  /\ IF ~MapHas(agents, agentId)
     THEN /\ Called("updateAgentStateSummary", "agent", agentId, "threw", "Agent not found")
          /\ UNCHANGED <<agents, saveQueue, unsaved>>
     ELSE /\ agents' = [agents EXCEPT ![agentId].summary = summary]
          /\ SaveState("agent", agentId)
          /\ Called("updateAgentStateSummary", "agent", agentId, "saving", "none")
  /\ UNCHANGED locations
  /\ UNCHANGED nonStoreVars

\* LocationStorage.addLocationStateAgentId(locationId, agentId): false when
\* the agent is in the location already.
AddLocationStateAgentId(locationId, agentId) ==
  /\ IF ~MapHas(locations, locationId)
     THEN /\ Called("addLocationStateAgentId", "location", locationId, "threw",
                    "Location not found")
          /\ UNCHANGED <<locations, saveQueue, unsaved>>
     ELSE IF agentId \in locations[locationId].agentIds
     THEN /\ Called("addLocationStateAgentId", "location", locationId, "returned", "none")
          /\ UNCHANGED <<locations, saveQueue, unsaved>>
     ELSE /\ locations' = [locations EXCEPT ![locationId].agentIds = @ \cup {agentId}]
          /\ SaveState("location", locationId)
          /\ Called("addLocationStateAgentId", "location", locationId, "saving", "none")
  /\ UNCHANGED agents
  /\ UNCHANGED nonStoreVars

\* getOrCreateLocationEntityState for a known location: the entity states
\* with a new one (isActive: true) for the entity if it has none.
WithEntityState(entityStates, entityKey) ==
  IF MapHas(entityStates, entityKey) THEN entityStates
  ELSE MapSet(entityStates, entityKey, [isActive |-> TRUE])

\* LocationStorage.updateLocationEntityStateIsActive(locationId, type, id,
\* isActive): it awaits getOrCreateLocationEntityState, which throws for an
\* unknown location, before its own lookup.
UpdateLocationEntityStateIsActive(locationId, entityKey, isActive) ==
  /\ IF ~MapHas(locations, locationId)
     THEN /\ Called("updateLocationEntityStateIsActive", "location", locationId,
                    "threw", "Location not found")
          /\ UNCHANGED <<locations, saveQueue, unsaved>>
     ELSE /\ locations' =
               [locations EXCEPT ![locationId].entityStates =
                  [WithEntityState(@, entityKey) EXCEPT ![entityKey].isActive = isActive]]
          /\ SaveState("location", locationId)
          /\ Called("updateLocationEntityStateIsActive", "location", locationId,
                    "saving", "none")
  /\ UNCHANGED agents
  /\ UNCHANGED nonStoreVars

\* The timer of saveState(id) fires: executeSave writes the record as it is
\* now, or fails and the error is logged; the id leaves the saveQueue map.
SaveTimerFires(store, id, ok) ==
  /\ <<store, id>> \in saveQueue
  /\ saveQueue' = saveQueue \ {<<store, id>>}
  /\ unsaved' = IF ok THEN unsaved \ {<<store, id>>} ELSE unsaved
  /\ UNCHANGED <<agents, locations, scall>>
  /\ UNCHANGED nonStoreVars

StoreNext ==
  \/ \E agentId \in AgentIds, summary \in Summaries :
       UpdateAgentStateSummary(agentId, summary)
  \/ \E locationId \in LocationIds, agentId \in AgentIds :
       AddLocationStateAgentId(locationId, agentId)
  \/ \E locationId \in LocationIds, entityKey \in EntityKeys, isActive \in BOOLEAN :
       UpdateLocationEntityStateIsActive(locationId, entityKey, isActive)
  \/ \E store \in {"agent", "location"}, id \in AgentIds \cup LocationIds, ok \in BOOLEAN :
       SaveTimerFires(store, id, ok)

StoreSpec == StoreInit /\ [][StoreNext]_vars

\* C20: a mutator of the agent store or of the location store called with an
\* id the database does not hold throws the store's not-found error, leaves
\* every record as it was and schedules no save.
C20_UnknownIdRejected ==
  [][LET db == IF scall'.store = "agent" THEN agents ELSE locations
     IN  (scall'.seq # scall.seq /\ ~MapHas(db, scall'.id)) =>
           /\ scall'.outcome = "threw"
           /\ scall'.error = IF scall'.store = "agent" THEN "Agent not found"
                             ELSE "Location not found"
           /\ UNCHANGED <<agents, locations, saveQueue, unsaved>>]_vars

\* updateLocationEntityStateIsActive threw for the unknown location 2 while
\* location 1 had a change waiting for its save timer.
C20_Witness ==
  /\ scall.op = "updateLocationEntityStateIsActive" /\ scall.id = 2
  /\ scall.outcome = "threw" /\ scall.error = "Location not found"
  /\ ~MapHas(locations, 2)
  /\ saveQueue = {<<"location", 1>>} /\ unsaved = {<<"location", 1>>}

\* ================================ the SaveQueue with writeJsonFile as saveFn
\* saveFn(key) is `writeJsonFile(StatePath(key), ...)`, awaited: the one way a
\* key's file is written. Each key has its own file, and the process has one
\* pid, so a temp path is shared by exactly the calls on one target path.
StatePath(key) == key

\* The writeJsonFile call made by the saveFn call of flush f, if it is made.
CallOf(f) == {c \in writes : c.key = f.key /\ c.id = f.id}

\* The atomicWriteFile calls in progress on a target path.
AtomicWriteCalls(path) ==
  {c \in writes : StatePath(c.key) = path /\ c.pc \in {"writeFile", "rename"}}

\* The calls that have ended and whose saveFn call has settled: a record of
\* the past, dropped when the key's next call is made.
Settled == {c \in writes : /\ c.pc \in {"returned", "threw"}
                           /\ \A f \in flushes : ~(f.key = c.key /\ f.id = c.id)}

Moved(c, pc) == (writes \ {c}) \cup {[c EXCEPT !.pc = pc]}

\* saveFn(key) has been called (line 71 of the queue) and calls
\* writeJsonFile, which awaits ensureDirectoryExists first.
WriteJsonFileStarts(f) ==
  /\ f.pc = "saveFn"
  /\ CallOf(f) = {}
  /\ writes' = (writes \ {c \in Settled : c.key = f.key}) \cup
                 {[key |-> f.key, id |-> f.id, pc |-> "mkdir", wrote |-> 0]}
  /\ UNCHANGED tmpFiles
  /\ UNCHANGED nonWriteVars

\* ensureDirectoryExists settles: writeJsonFile goes on to atomicWriteFile,
\* whose fs.writeFile(tmpPath) begins, or throws the mkdir error.
EnsuredDirectory(c, ok) ==
  /\ c.pc = "mkdir"
  /\ writes' = Moved(c, IF ok THEN "writeFile" ELSE "threw")
  /\ UNCHANGED tmpFiles
  /\ UNCHANGED nonWriteVars

\* fs.writeFile(tmpPath, data) fulfils: the temp file holds the call's payload.
TmpWritten(c) ==
  /\ c.pc = "writeFile"
  /\ tmpFiles' = [tmpFiles EXCEPT ![StatePath(c.key)] = c.id]
  /\ writes' = Moved(c, "rename")
  /\ UNCHANGED nonWriteVars

\* fs.writeFile(tmpPath, data) rejects, with the temp file created or not;
\* atomicWriteFile throws with no cleanup.
TmpWriteFails(c, created) ==
  /\ c.pc = "writeFile"
  /\ tmpFiles' = IF created THEN [tmpFiles EXCEPT ![StatePath(c.key)] = c.id]
                 ELSE tmpFiles
  /\ writes' = Moved(c, "threw")
  /\ UNCHANGED nonWriteVars

\* fs.rename(tmpPath, filePath) fulfils (at the first attempt or at a later
\* one): the target holds what the temp file held, and the temp path is gone.
TmpRenamed(c) ==
  /\ c.pc = "rename"
  /\ tmpFiles[StatePath(c.key)] # 0
  /\ writes' = (writes \ {c}) \cup
                 {[c EXCEPT !.pc = "returned", !.wrote = tmpFiles[StatePath(c.key)]]}
  /\ tmpFiles' = [tmpFiles EXCEPT ![StatePath(c.key)] = 0]
  /\ UNCHANGED nonWriteVars

\* fs.rename rejects for good: the unlink is attempted and the error thrown.
TmpRenameFails(c, unlinked) ==
  /\ c.pc = "rename"
  /\ tmpFiles' = IF unlinked THEN [tmpFiles EXCEPT ![StatePath(c.key)] = 0]
                 ELSE tmpFiles
  /\ writes' = Moved(c, "threw")
  /\ UNCHANGED nonWriteVars

\* A saveFn that starts writeJsonFile and does not await it: it fulfils as
\* soon as the call is made.
SaveFnSettlesBeforeWrite(f) ==
  /\ CallOf(f) # {}
  /\ SaveFnResolves(f)

\* `await this.saveFn(key)` settles when the awaited writeJsonFile has:
\* fulfilled when it returned, rejected when it threw (and then onError
\* returns or throws).
SaveFnSettlesWithWrite(f) ==
  \/ /\ \E c \in CallOf(f) : c.pc = "returned"
     /\ SaveFnResolves(f)
  \/ /\ \E c \in CallOf(f) : c.pc = "threw"
     /\ SaveFnRejects(f) \/ SaveFnRejectsOnErrorThrows(f)

WriteNext ==
  \/ \E key \in Keys : RequestSave(key)
  \/ \E key \in Keys : TimerFire(key)
  \/ \E f \in flushes : SleepEnds(f)
  \/ Tick
  \/ \E f \in flushes : WriteJsonFileStarts(f)
  \/ \E c \in writes, ok \in BOOLEAN : EnsuredDirectory(c, ok)
  \/ \E c \in writes : TmpWritten(c)
  \/ \E c \in writes, created \in BOOLEAN : TmpWriteFails(c, created)
  \/ \E c \in writes : TmpRenamed(c)
  \/ \E c \in writes, unlinked \in BOOLEAN : TmpRenameFails(c, unlinked)
  \/ \E f \in flushes : SaveFnSettlesWithWrite(f)

WriteSpec == Init /\ [][WriteNext]_vars

\* C28: on every target path at most one atomicWriteFile call is in progress
\* at a time; the call that is about to rename finds in the temp file the
\* payload it wrote itself, and the payload a call has renamed onto the
\* target is its own; no step writes or renames the temp file of a path while
\* another call on that path is in progress.
C28_OneWriterPerPath ==
  /\ [](/\ \A path \in Keys : Cardinality(AtomicWriteCalls(path)) <= 1
        /\ \A c \in writes :
             /\ c.pc = "rename" => tmpFiles[StatePath(c.key)] = c.id
             /\ c.pc = "returned" => c.wrote = c.id)
  /\ [][\A path \in Keys :
          tmpFiles'[path] # tmpFiles[path] =>
            \A c \in AtomicWriteCalls(path) : AtomicWriteCalls(path) = {c}]_vars

\* A key's file was written and renamed by the first save and is being
\* written again by the follow-up save, while the other key's file is being
\* written as well.
C28_Witness ==
  \E k1, k2 \in Keys :
    /\ k1 # k2
    /\ log[k1] = <<"request", "fire", "start", "request", "ok", "start">>
    /\ \E c \in AtomicWriteCalls(StatePath(k1)) : c.pc = "rename"
    /\ \E c \in AtomicWriteCalls(StatePath(k2)) : c.pc = "writeFile"


\* ====================== saveState and executeSave of the lock-polling stores
\* One store instance. The steps are the jobs of the event loop: a timer
\* callback or an I/O completion (a macrotask) runs to its first await, and
\* the continuations it made ready (the microtasks) run, in order, before the
\* next macrotask does. `await waitForLock()` is such a suspension: the flag
\* is tested in one job and set in a later one.
LockInit ==
  /\ QueueIdle
  /\ FileIdle
  /\ JsonIdle
  /\ StoreIdle
  /\ WriteIdle
  /\ EntityIdle
  /\ storeKind = "lock"
  /\ saveQueueMap = EmptyMap
  /\ savePromise = <<>>
  /\ saveInProgress = FALSE
  /\ saves = [i \in SaveIds |-> NoSave]
  /\ microtasks = <<>>

SaveAt(i, pc) == [saves EXCEPT ![i].pc = pc]

\* Timer callbacks run in one batch, with the continuations they made ready
\* left for after the batch.
MacrotaskMayRunBatched == TRUE

\* A timer callback or an I/O completion runs only when no continuation is
\* ready: the microtask queue is drained after every callback.
MacrotaskMayRun == microtasks = <<>>

\* saveState(key), the same in every store: if saveQueue has the key, the
\* timeout of its item is cleared (which does nothing to a timer that has
\* fired) and its promise resolved; then a timer is set and the saveQueue item
\* of the key is the new call's. The caller is application code, in a job of
\* its own.
SaveStateSetsTimer(i, key) ==
  /\ MacrotaskMayRun
  /\ saves[i].pc = "none"
  /\ \A j \in SaveIds : j < i => saves[j].pc # "none"
  /\ saves' = [j \in SaveIds |->
                 IF j = i
                 THEN [key |-> key, pc |-> "timer", polled |-> FALSE,
                       promise |-> "pending"]
                 ELSE IF MapHas(saveQueueMap, key) /\ saveQueueMap[key] = j
                 THEN [saves[j] EXCEPT !.pc = IF @ = "timer" THEN "cleared" ELSE @,
                                       !.promise = "resolved"]
                 ELSE saves[j]]
  /\ saveQueueMap' = MapSet(saveQueueMap, key, i)
  /\ UNCHANGED <<storeKind, savePromise, saveInProgress, microtasks>>
  /\ UNCHANGED nonLockVars

\* The timer fires: executeSave(key) is called and runs up to
\* `await waitForLock()`, with the flag tested on the way. The saveQueue item
\* stays until executeSave has finished.
ExecuteSaveStarts(i) ==
  /\ MacrotaskMayRun
  /\ saves[i].pc = "timer"
  /\ IF saveInProgress
     THEN /\ saves' = SaveAt(i, "sleeping")
          /\ UNCHANGED microtasks
     ELSE /\ saves' = SaveAt(i, "passed")
          /\ microtasks' = Append(microtasks, i)
  /\ UNCHANGED <<storeKind, saveQueueMap, savePromise, saveInProgress>>
  /\ UNCHANGED nonLockVars

\* The timer of sleep(10) fires and resolves the promise waitForLock awaits.
PollSleepEnds(i) ==
  /\ MacrotaskMayRun
  /\ saves[i].pc = "sleeping"
  /\ saves' = [saves EXCEPT ![i].pc = "woken", ![i].polled = TRUE]
  /\ microtasks' = Append(microtasks, i)
  /\ UNCHANGED <<storeKind, saveQueueMap, savePromise, saveInProgress>>
  /\ UNCHANGED nonLockVars

\* A timer callback whose catch block lets the error go on: the promise of
\* the call is rejected.
ExecuteSaveFinishedRejects(i, pc) ==
  /\ saves' = [saves EXCEPT ![i].pc = pc,
                            ![i].promise = IF pc = "threw" THEN "rejected"
                                           ELSE "resolved"]
  /\ saveQueueMap' = MapDelete(saveQueueMap, saves[i].key)
  /\ saveInProgress' = FALSE

\* executeSave returns or throws, its finally block having cleared the flag,
\* and the timer callback goes on in the same job: it logs the error if there
\* is one, deletes the key's saveQueue item, whichever call's it is, and
\* resolves the promise of its own call.
ExecuteSaveFinished(i, pc) ==
  /\ saves' = [saves EXCEPT ![i].pc = pc, ![i].promise = "resolved"]
  /\ saveQueueMap' = MapDelete(saveQueueMap, saves[i].key)
  /\ saveInProgress' = FALSE

\* The first ready continuation runs. After the sleep: waitForLock calls
\* itself and tests the flag again. After waitForLock returned: the try block
\* sets the flag, looks the record up (`found`), and starts fs.writeFile or
\* throws, in which case the finally block clears the flag at once.
RunMicrotask(found) ==
  /\ microtasks # <<>>
  /\ LET i == Head(microtasks)
     IN  CASE saves[i].pc = "woken" /\ saveInProgress ->
                /\ saves' = SaveAt(i, "sleeping")
                /\ microtasks' = Tail(microtasks)
                /\ UNCHANGED <<saveInProgress, saveQueueMap>>
           [] saves[i].pc = "woken" /\ ~saveInProgress ->
                /\ saves' = SaveAt(i, "passed")
                /\ microtasks' = Append(Tail(microtasks), i)
                /\ UNCHANGED <<saveInProgress, saveQueueMap>>
           [] saves[i].pc = "passed" /\ found ->
                /\ saveInProgress' = TRUE
                /\ saves' = SaveAt(i, "writing")
                /\ microtasks' = Tail(microtasks)
                /\ UNCHANGED saveQueueMap
           [] saves[i].pc = "passed" /\ ~found ->
                /\ ExecuteSaveFinished(i, "threw")
                /\ microtasks' = Tail(microtasks)
  /\ UNCHANGED <<storeKind, savePromise>>
  /\ UNCHANGED nonLockVars

\* fs.writeFile(statePath, stateJson) settles; the finally block clears the
\* flag, and executeSave returns or throws.
StateFileWriteSettles(i, ok) ==
  /\ MacrotaskMayRun
  /\ saves[i].pc = "writing"
  /\ ExecuteSaveFinished(i, IF ok THEN "done" ELSE "threw")
  /\ UNCHANGED <<storeKind, savePromise, microtasks>>
  /\ UNCHANGED nonLockVars

LockNext ==
  \/ \E i \in SaveIds, key \in Keys : SaveStateSetsTimer(i, key)
  \/ \E i \in SaveIds : ExecuteSaveStarts(i)
  \/ \E i \in SaveIds : PollSleepEnds(i)
  \/ \E found \in BOOLEAN : RunMicrotask(found)
  \/ \E i \in SaveIds, ok \in BOOLEAN : StateFileWriteSettles(i, ok)

LockSpec == LockInit /\ [][LockNext]_vars

\* The executeSave calls whose fs.writeFile is in progress.
Writing == {i \in SaveIds : saves[i].pc = "writing"}

\* C30: at most one executeSave call of the store has its state-file write in
\* progress, for the same key or for different keys, and the flag is set
\* while it has; a call that has found the flag clear and has not set it yet
\* is alone in that and no write is in progress.
C30_OneStateFileWrite ==
  /\ Cardinality(Writing) <= 1
  /\ Writing # {} => saveInProgress
  /\ \A i \in SaveIds :
       saves[i].pc = "passed" =>
         /\ Writing = {}
         /\ \A j \in SaveIds : saves[j].pc = "passed" => j = i

\* Three calls: one has written, one that had to poll is writing, and one is
\* asleep waiting for the flag.
C30_Witness ==
  \E i, j, k \in SaveIds :
    /\ saves[i].pc = "done"
    /\ saves[j].pc = "writing" /\ saves[j].polled
    /\ saves[k].pc = "sleeping"
    /\ saves[j].key = saves[i].key /\ saves[k].key # saves[j].key

\* The saveState calls of a key whose debounce timer is pending.
PendingTimers(key) ==
  {i \in SaveIds : saves[i].pc = "timer" /\ saves[i].key = key}

\* C32: in every state each key has at most one saveState call whose debounce
\* timer is pending.
C32_OneTimerPerKey ==
  \A key \in Keys : Cardinality(PendingTimers(key)) <= 1

\* ===================== saveState and executeSave of the promise-chain stores
ChainInit ==
  /\ QueueIdle
  /\ FileIdle
  /\ JsonIdle
  /\ StoreIdle
  /\ WriteIdle
  /\ EntityIdle
  /\ storeKind = "chain"
  /\ saveQueueMap = EmptyMap
  /\ savePromise = <<>>
  /\ saveInProgress = FALSE
  /\ saves = [i \in SaveIds |-> NoSave]
  /\ microtasks = <<>>

\* The timer fires: the callback deletes the key's saveQueue item and calls
\* executeSave, which chains its operation on savePromise and awaits it.
ChainTimerFires(i) ==
  /\ saves[i].pc = "timer"
  /\ saveQueueMap' = MapDelete(saveQueueMap, saves[i].key)
  /\ savePromise' = Append(savePromise, i)
  /\ saves' = SaveAt(i, "chained")
  /\ UNCHANGED <<storeKind, saveInProgress, microtasks>>
  /\ UNCHANGED nonLockVars

\* executeSave running its operation at once, without savePromise.
ChainOperationRunsUnchained(i, found) ==
  /\ saves[i].pc = "chained"
  /\ IF found
     THEN /\ saves' = SaveAt(i, "writing")
          /\ UNCHANGED savePromise
     ELSE /\ saves' = [saves EXCEPT ![i].pc = "threw", ![i].promise = "resolved"]
          /\ savePromise' = SelectSeq(savePromise, LAMBDA j : j # i)
  /\ UNCHANGED <<storeKind, saveQueueMap, saveInProgress, microtasks>>
  /\ UNCHANGED nonLockVars

\* Every operation chained before it has settled: the operation of call i
\* runs. It looks the record up (`found`) and starts the write of the state
\* file, or throws; then saveOperation rejects, savePromise (which has a
\* catch) fulfils, and the timer callback logs the error and resolves.
ChainOperationRuns(i, found) ==
  /\ saves[i].pc = "chained"
  /\ savePromise # <<>> /\ Head(savePromise) = i
  /\ IF found
     THEN /\ saves' = SaveAt(i, "writing")
          /\ UNCHANGED savePromise
     ELSE /\ saves' = [saves EXCEPT ![i].pc = "threw", ![i].promise = "resolved"]
          /\ savePromise' = Tail(savePromise)
  /\ UNCHANGED <<storeKind, saveQueueMap, saveInProgress, microtasks>>
  /\ UNCHANGED nonLockVars

\* `this.savePromise = saveOperation` with no catch: a rejected operation
\* rejects every operation chained after it, unrun.
ChainWriteSettlesNoCatch(i, ok) ==
  /\ saves[i].pc = "writing"
  /\ IF ok
     THEN /\ saves' = [saves EXCEPT ![i].pc = "done", ![i].promise = "resolved"]
          /\ savePromise' = SelectSeq(savePromise, LAMBDA j : j # i)
     ELSE /\ saves' = [j \in SaveIds |->
                         IF j = i \/ saves[j].pc = "chained"
                         THEN [saves[j] EXCEPT !.pc = "threw", !.promise = "resolved"]
                         ELSE saves[j]]
          /\ savePromise' = <<>>
  /\ UNCHANGED <<storeKind, saveQueueMap, saveInProgress, microtasks>>
  /\ UNCHANGED nonLockVars

\* The write of the state file settles: saveOperation settles with it,
\* savePromise fulfils either way, and the timer callback logs the error if
\* there is one and resolves the promise of its call.
ChainWriteSettles(i, ok) ==
  /\ saves[i].pc = "writing"
  /\ saves' = [saves EXCEPT ![i].pc = IF ok THEN "done" ELSE "threw",
                            ![i].promise = "resolved"]
  /\ savePromise' = SelectSeq(savePromise, LAMBDA j : j # i)
  /\ UNCHANGED <<storeKind, saveQueueMap, saveInProgress, microtasks>>
  /\ UNCHANGED nonLockVars

ChainNext ==
  \/ \E i \in SaveIds, key \in Keys : SaveStateSetsTimer(i, key)
  \/ \E i \in SaveIds : ChainTimerFires(i)
  \/ \E i \in SaveIds, found \in BOOLEAN : ChainOperationRuns(i, found)
  \/ \E i \in SaveIds, ok \in BOOLEAN : ChainWriteSettles(i, ok)

ChainSpec == ChainInit /\ [][ChainNext]_vars

\* C33: in a promise-chain store at most one write is in progress; the call
\* whose write starts is the one that called executeSave first among those
\* not settled; and the step in which a save fails changes no other call (none
\* fails with it, none is resolved by it, none leaves the chain), resolves
\* the promise of its own call, and leaves the next operation of the chain
\* free to run.
C33_ChainSerializesAndIsolates ==
  /\ [](/\ Cardinality(Writing) <= 1
        /\ \A i \in Writing : savePromise # <<>> /\ Head(savePromise) = i
        /\ (savePromise # <<>> /\ saves[Head(savePromise)].pc = "chained") =>
             ENABLED ChainOperationRuns(Head(savePromise), TRUE))
  /\ [][\A i \in SaveIds :
          /\ (saves[i].pc = "chained" /\ saves'[i].pc = "writing") =>
               Head(savePromise) = i
          /\ (saves[i].pc \in {"chained", "writing"} /\ saves'[i].pc = "threw") =>
               /\ saves'[i].promise = "resolved"
               /\ \A j \in SaveIds : j # i => saves'[j] = saves[j]
               /\ savePromise' = SelectSeq(savePromise, LAMBDA j : j # i)]_vars

\* The first save failed; the second, chained behind it, is writing, and the
\* third waits its turn.
C33_Witness ==
  /\ saves[1].pc = "threw" /\ saves[1].promise = "resolved"
  /\ saves[2].pc = "writing" /\ saves[2].promise = "pending"
  /\ saves[3].pc = "chained"
  /\ savePromise = <<2, 3>>

\* ======================================= saveState of either kind of store
SaveInit == LockInit \/ ChainInit

SaveNext ==
  \/ storeKind = "lock" /\ LockNext
  \/ storeKind = "chain" /\ ChainNext

\* The event loop always runs a job that is ready (a continuation, an expired
\* timer, a settled file operation), and every fs.writeFile settles. The
\* callback of a settled write waits for the microtask queue to drain, which
\* it does again and again, hence the strong fairness.
EventLoopRuns ==
  \/ /\ storeKind = "lock"
     /\ \/ \E i \in SaveIds : ExecuteSaveStarts(i) \/ PollSleepEnds(i)
        \/ \E found \in BOOLEAN : RunMicrotask(found)
        \/ \E i \in SaveIds, ok \in BOOLEAN : StateFileWriteSettles(i, ok)
  \/ /\ storeKind = "chain"
     /\ \/ \E i \in SaveIds : ChainTimerFires(i)
        \/ \E i \in SaveIds, found \in BOOLEAN : ChainOperationRuns(i, found)
        \/ \E i \in SaveIds, ok \in BOOLEAN : ChainWriteSettles(i, ok)

SaveFairness ==
  /\ WF_vars(EventLoopRuns)
  /\ SF_vars(storeKind = "lock" /\ \E i \in SaveIds, ok \in BOOLEAN : StateFileWriteSettles(i, ok))

FairSaveSpec == SaveInit /\ [][SaveNext]_vars /\ SaveFairness

\* C31: the promise of every saveState call is resolved in the end and is
\* never rejected; the step that clears a pending timer is a saveState call
\* for the same key and resolves the promise of the cleared call; and the
\* step in which executeSave finishes, well or with an error, leaves the
\* promise of its call resolved.
C31_SaveStatePromiseResolves ==
  /\ \A i \in SaveIds : (saves[i].promise = "pending") ~> (saves[i].promise = "resolved")
  /\ [](\A i \in SaveIds : /\ saves[i].promise # "rejected"
                           /\ saves[i].pc \in {"cleared", "done", "threw"} =>
                                saves[i].promise = "resolved")
  /\ [][\A i \in SaveIds :
          /\ (saves[i].pc = "timer" /\ saves'[i].pc = "cleared") =>
               \E j \in SaveIds : /\ saves[j].pc = "none"
                                  /\ saves'[j].pc = "timer"
                                  /\ saves'[j].key = saves[i].key
          /\ (saves[i].promise = "resolved") => (saves'[i].promise = "resolved")]_vars

\* One call was superseded, one failed in executeSave, and the promises of
\* both are resolved.
C31_Witness ==
  \E i, j \in SaveIds :
    /\ saves[i].pc = "cleared" /\ saves[i].promise = "resolved"
    /\ saves[j].pc = "threw" /\ saves[j].promise = "resolved"
    /\ \E k \in SaveIds : saves[k].pc = "done"

\* ============================================================ the item store
DataIds == 1..2
MaxTotal == 3
MaxItemId == 3
ItemIds == 1..MaxItemId
Amounts == 0..MaxTotal

\* The entity keys of the owners: `${EntityType}:${id}`.
Owners == {"agent:1", "user:1"}

Item(dataId, count) == [dataId |-> dataId, count |-> count]

\* The inventory files an earlier run left: one item each, under ids of their
\* own.
ItemFiles ==
  [o \in Owners |-> IF o = "agent:1" THEN MapSet(EmptyMap, 1, Item(1, 1))
                    ELSE MapSet(EmptyMap, 2, Item(2, 1))]

ItemIdsIn(owners) == UNION {DOMAIN owners[o] : o \in DOMAIN owners}
MaxOf(S) == IF S = {} THEN 0 ELSE CHOOSE x \in S : \A y \in S : y <= x

RECURSIVE SumCounts(_, _)
SumCounts(inv, ids) ==
  IF ids = {} THEN 0
  ELSE LET id == CHOOSE x \in ids : TRUE
       IN  inv[id].count + SumCounts(inv, ids \ {id})

\* getEntityItemCount, for an inventory.
ItemCount(inv, dataId) ==
  SumCounts(inv, {id \in DOMAIN inv : inv[id].dataId = dataId})

\* The inventory of an owner as the store shows it: the one in memory, or the
\* one its file holds, which the first operation on the owner loads.
InventoryOf(st, o) == IF MapHas(st.owners, o) THEN st.owners[o] ELSE st.files[o]

RECURSIVE TotalCount(_, _, _)
TotalCount(st, os, dataId) ==
  IF os = {} THEN 0
  ELSE LET o == CHOOSE x \in os : TRUE
       IN  ItemCount(InventoryOf(st, o), dataId) + TotalCount(st, os \ {o}, dataId)

\* The items the model still has room for.
Room(st) ==
  MaxTotal - (TotalCount(st, Owners, 1) + TotalCount(st, Owners, 2) + st.transfer.count)

\* The id kept for the transfer under way, whose second half may create an
\* item.
Reserved(st) == IF st.transfer = NoTransfer THEN 0 ELSE 1

\* initialize(entityKeys): the inventories of entityKeys are loaded and
\* nextItemId is set above every id found in them.
ItemInit ==
  /\ QueueIdle
  /\ FileIdle
  /\ JsonIdle
  /\ StoreIdle
  /\ WriteIdle
  /\ LockIdle
  /\ gimmickStorage = NoGimmickStorage
  /\ \E entityKeys \in SUBSET Owners :
       LET owners == [o \in entityKeys |-> ItemFiles[o]]
       IN  itemStorage = [owners |-> owners,
                          nextItemId |-> MaxOf(ItemIdsIn(owners)) + 1,
                          files |-> ItemFiles,
                          transfer |-> NoTransfer,
                          last |-> NoItemCall]

\* What the last call was and how it ended.
ItemCall(op, outcome) == [op |-> op, outcome |-> outcome]

\* ensureEntityExists: an inventory not in memory is loaded from its file.
Loaded(st, o) ==
  IF MapHas(st.owners, o) THEN st
  ELSE [st EXCEPT !.owners = MapSet(@, o, st.files[o])]

\* The body of createItemModel after its guard.
Created(st, o, dataId, count) ==
  [st EXCEPT !.owners = MapSet(@, o, MapSet(st.owners[o], st.nextItemId,
                                            Item(dataId, count))),
             !.nextItemId = @ + 1]

\* An addOrCreateItemModel that stores the count it was given in the item it
\* finds.
AddedOrCreatedSetsCount(st, o, dataId, count) ==
  LET inv == st.owners[o]
      same == {id \in DOMAIN inv : inv[id].dataId = dataId}
  IN  IF same # {}
      THEN LET id == CHOOSE x \in same : \A y \in same : x <= y
           IN  [st EXCEPT !.owners = MapSet(@, o, MapSet(inv, id, Item(dataId, count)))]
      ELSE Created(st, o, dataId, count)

\* The body of addOrCreateItemModel after its guard: the first item of the
\* owner with this data id (Object.values lists integer keys in ascending
\* order) gains count; with no such item a new one is created.
AddedOrCreated(st, o, dataId, count) ==
  LET inv == st.owners[o]
      same == {id \in DOMAIN inv : inv[id].dataId = dataId}
  IN  IF same # {}
      THEN LET id == CHOOSE x \in same : \A y \in same : x <= y
           IN  [st EXCEPT !.owners = MapSet(@, o, MapSet(inv, id,
                                        Item(dataId, inv[id].count + count)))]
      ELSE Created(st, o, dataId, count)

\* A removeItemModel that keeps the item whose count has reached zero.
RemovedKeepsEmpty(st, o, id, count) ==
  LET inv == st.owners[o]
  IN  [st EXCEPT !.owners = MapSet(@, o, MapSet(inv, id,
                               Item(inv[id].dataId, inv[id].count - count)))]

\* The body of removeItemModel after its guards.
Removed(st, o, id, count) ==
  LET inv == st.owners[o]
      left == inv[id].count - count
  IN  [st EXCEPT !.owners = MapSet(@, o,
                   IF left = 0 THEN MapDelete(inv, id)
                   ELSE MapSet(inv, id, Item(inv[id].dataId, left)))]

CreateItemModel(o, dataId, count) ==
  /\ IF count <= 0
     THEN itemStorage' = [itemStorage EXCEPT
                            !.last = ItemCall("create", "rejected")]
     ELSE /\ itemStorage.nextItemId + Reserved(itemStorage) <= MaxItemId
          /\ count <= Room(itemStorage)
          /\ itemStorage' = [Created(Loaded(itemStorage, o), o, dataId, count) EXCEPT
                               !.last = ItemCall("create", "created")]
  /\ UNCHANGED nonItemVars

AddOrCreateItemModel(o, dataId, count) ==
  /\ IF count <= 0
     THEN itemStorage' = [itemStorage EXCEPT
                            !.last = ItemCall("add", "rejected")]
     ELSE LET st == AddedOrCreated(Loaded(itemStorage, o), o, dataId, count)
          IN  /\ itemStorage.nextItemId + Reserved(itemStorage) <= MaxItemId
              /\ count <= Room(itemStorage)
              /\ itemStorage' = [st EXCEPT !.last = ItemCall("add", "added")]
  /\ UNCHANGED nonItemVars

RemoveItemModel(o, id, count) ==
  /\ IF count <= 0
     THEN itemStorage' = [itemStorage EXCEPT
                            !.last = ItemCall("remove", "rejected")]
     ELSE LET st == Loaded(itemStorage, o)
          IN  IF ~MapHas(st.owners[o], id) \/ st.owners[o][id].count < count
              THEN itemStorage' = [st EXCEPT
                                     !.last = ItemCall("remove", "rejected")]
              ELSE itemStorage' = [Removed(st, o, id, count) EXCEPT
                                     !.last = ItemCall("remove", "removed")]
  /\ UNCHANGED nonItemVars

\* transferItemModel up to the end of its removeItemModel call, whose
\* saveState it awaits before it goes on.
TransferItemModel(o, id, targetKey, count) ==
  /\ itemStorage.transfer = NoTransfer
  /\ itemStorage.nextItemId <= MaxItemId
  /\ IF count <= 0
     THEN itemStorage' = [itemStorage EXCEPT
                            !.last = ItemCall("transfer", "rejected")]
     ELSE LET st == Loaded(Loaded(itemStorage, o), targetKey)
          IN  IF ~MapHas(st.owners[o], id) \/ st.owners[o][id].count < count
              THEN itemStorage' = [st EXCEPT
                      !.last = ItemCall("transfer", "rejected")]
              ELSE itemStorage' = [Removed(st, o, id, count) EXCEPT
                      !.transfer = [target |-> targetKey, dataId |-> st.owners[o][id].dataId,
                                    count |-> count],
                      !.last = ItemCall("transfer", "removed")]
  /\ UNCHANGED nonItemVars

\* transferItemModel goes on: addOrCreateItemModel(target, dataId, count).
TransferAdds ==
  /\ itemStorage.transfer # NoTransfer
  /\ LET t == itemStorage.transfer
         st == AddedOrCreated(itemStorage, t.target, t.dataId, t.count)
     IN  /\ itemStorage' = [st EXCEPT !.transfer = NoTransfer,
                                      !.last = ItemCall("transfer", "transferred")]
  /\ UNCHANGED nonItemVars

ItemNext ==
  \/ \E o \in Owners, dataId \in DataIds, count \in Amounts : CreateItemModel(o, dataId, count)
  \/ \E o \in Owners, dataId \in DataIds, count \in Amounts : AddOrCreateItemModel(o, dataId, count)
  \/ \E o \in Owners, id \in ItemIds, count \in Amounts : RemoveItemModel(o, id, count)
  \/ \E o \in Owners, id \in ItemIds, targetKey \in Owners, count \in Amounts :
       TransferItemModel(o, id, targetKey, count)
  \/ TransferAdds

ItemSpec == ItemInit /\ [][ItemNext]_vars

CountOf(inv, id) == IF MapHas(inv, id) THEN inv[id].count ELSE 0

\* The count a transfer has taken from the owner and not yet given to the
\* target.
InTransfer(st, dataId) == IF st.transfer.dataId = dataId THEN st.transfer.count ELSE 0

C36_ItemIdsUnique ==
  /\ \A o1, o2 \in DOMAIN itemStorage.owners :
       o1 # o2 => DOMAIN itemStorage.owners[o1] \cap DOMAIN itemStorage.owners[o2] = {}
  /\ itemStorage.nextItemId > MaxOf(ItemIdsIn(itemStorage.owners))

\* An inventory was loaded after initialize, and an id is held twice.
C36_Witness ==
  /\ MapHas(itemStorage.owners, "agent:1")
  /\ MapHas(itemStorage.owners, "user:1")
  /\ DOMAIN itemStorage.owners["agent:1"] \cap DOMAIN itemStorage.owners["user:1"] # {}

\* ========================================================= the gimmick store
\* One location; its gimmicks; the getOrCreateGimmickState calls.
GimmickIds == Keys
NoGimmickCall == [gimmick |-> 0, pc |-> "none", result |-> "none"]

\* A new GimmickStorage, or one after initialize([location]), over a state
\* file that an earlier run may have left.
GimmickInit ==
  /\ QueueIdle
  /\ FileIdle
  /\ JsonIdle
  /\ StoreIdle
  /\ WriteIdle
  /\ LockIdle
  /\ itemStorage = NoItemStorage
  /\ \E initialized \in BOOLEAN, fileExists \in BOOLEAN, file \in SUBSET GimmickIds :
       /\ ~fileExists => file = {}
       /\ gimmickStorage = [loaded |-> initialized,
                            gimmickStates |-> IF initialized THEN file ELSE {},
                            fileExists |-> fileExists,
                            file |-> file,
                            load |-> IF initialized THEN "done" ELSE "none",
                            calls |-> [c \in SaveIds |-> NoGimmickCall]]

GimmickCallAt(c, pc) == [gimmickStorage.calls EXCEPT ![c].pc = pc]

\* getOrCreateGimmickState(location, g) up to its first await:
\* ensureLocationExists either finds the location's record or calls
\* loadLocationGimmickData, which puts a record with no gimmick states into
\* the database and awaits fileExists.
GetOrCreateGimmickState(c, g) ==
  /\ gimmickStorage.calls[c].pc = "none"
  /\ \A b \in SaveIds : b < c => gimmickStorage.calls[b].pc # "none"
  /\ IF gimmickStorage.loaded
     THEN gimmickStorage' = [gimmickStorage EXCEPT
            !.calls = [@ EXCEPT ![c] = [gimmick |-> g, pc |-> "ensured", result |-> "none"]]]
     ELSE gimmickStorage' = [gimmickStorage EXCEPT
            !.loaded = TRUE,
            !.gimmickStates = {},
            !.load = "reading",
            !.calls = [@ EXCEPT ![c] = [gimmick |-> g, pc |-> "loading", result |-> "none"]]]
  /\ UNCHANGED nonGimmickVars

\* fileExists and fs.readFile have settled, after every continuation that
\* was ready: loadLocationGimmickData replaces the gimmick states of the
\* record with those of the file, if there is one, and returns to its caller.
LoadLocationGimmickData(c) ==
  /\ gimmickStorage.calls[c].pc = "loading"
  /\ \A b \in SaveIds : gimmickStorage.calls[b].pc # "ensured"
  /\ gimmickStorage' = [gimmickStorage EXCEPT
       !.gimmickStates = IF gimmickStorage.fileExists THEN gimmickStorage.file ELSE @,
       !.load = "done",
       !.calls = GimmickCallAt(c, "ensured")]
  /\ UNCHANGED nonGimmickVars

\* After ensureLocationExists: a gimmick without a state gets one, and the
\* call awaits saveState; otherwise the call returns a copy of the state.
GimmickStateEnsured(c) ==
  /\ gimmickStorage.calls[c].pc = "ensured"
  /\ LET g == gimmickStorage.calls[c].gimmick
     IN  IF g \in gimmickStorage.gimmickStates
         THEN gimmickStorage' = [gimmickStorage EXCEPT
                !.calls = [@ EXCEPT ![c].pc = "returned", ![c].result = "state"]]
         ELSE gimmickStorage' = [gimmickStorage EXCEPT
                !.gimmickStates = @ \cup {g},
                !.calls = GimmickCallAt(c, "saving")]
  /\ UNCHANGED nonGimmickVars

\* saveState has resolved: the call returns
\* createDeepCopy(locationData.gimmickStates[gimmickId]), which is undefined
\* where the record holds no state for the gimmick.
GimmickStateSaved(c) ==
  /\ gimmickStorage.calls[c].pc = "saving"
  /\ gimmickStorage' = [gimmickStorage EXCEPT
       !.calls = [@ EXCEPT ![c].pc = "returned",
                           ![c].result = IF gimmickStorage.calls[c].gimmick
                                             \in gimmickStorage.gimmickStates
                                         THEN "state" ELSE "undefined"]]
  /\ UNCHANGED nonGimmickVars

GimmickNext ==
  \/ \E c \in SaveIds, g \in GimmickIds : GetOrCreateGimmickState(c, g)
  \/ \E c \in SaveIds : LoadLocationGimmickData(c)
  \/ \E c \in SaveIds : GimmickStateEnsured(c)
  \/ \E c \in SaveIds : GimmickStateSaved(c)

GimmickSpec == GimmickInit /\ [][GimmickNext]_vars

\* C37: every getOrCreateGimmickState call that has returned has returned a
\* state, and the database holds a state for its gimmick.
C37_ReturnsStateKeptInMemory ==
  \A c \in SaveIds :
    gimmickStorage.calls[c].pc = "returned" =>
      /\ gimmickStorage.calls[c].result = "state"
      /\ gimmickStorage.calls[c].gimmick \in gimmickStorage.gimmickStates

\* Two calls for a location that was not in memory, its file on disk: the
\* first loaded it, the second ran meanwhile, and both have returned.
C37_Witness ==
  /\ gimmickStorage.fileExists
  /\ gimmickStorage.load = "done"
  /\ gimmickStorage.calls[1].pc = "returned"
  /\ gimmickStorage.calls[2].pc = "returned"
  /\ gimmickStorage.calls[1].gimmick # gimmickStorage.calls[2].gimmick
  /\ gimmickStorage.calls[2].result = "undefined"

====
